---- MODULE Spec2Model ----
(***************************************************************************)
(* Model of the batch orchestrator of arxival (server/batch.py):           *)
(* BatchIngester.ingest_papers drives the papers of a fetched list, in     *)
(* batches of batch_size concurrent process_single_paper tasks, through    *)
(* fetch -> segmentation -> index insertion, with a checkpoint file, an    *)
(* error log and a skip log on disk.                                       *)
(*                                                                         *)
(* The collaborators (fetcher.fetch_paper_content, PDFProcessor.process_pdf*)
(* and RAGPipeline.add_paper) are modelled by their outcomes: every call   *)
(* returns one of the results the orchestrator distinguishes, chosen       *)
(* nondeterministically.  A process crash may happen at any point of a run;*)
(* it loses the memory of the process and keeps the files.                 *)
(*                                                                         *)
(* The two JSON-lines logs are kept as their projection on each paper id:  *)
(* error_log[p] is the sequence of the "stage" fields of the records of    *)
(* paper p, in file order, and skip_log[p] the sequence of its "reason"    *)
(* fields.  No operation of the program reads the order of records of      *)
(* different papers.                                                       *)
(*                                                                         *)
(* The metadata cache is kept by what a task can change of it: whether the *)
(* dict cached for a paper carries the key "images".                       *)
(*                                                                         *)
(* The segmentation of one document (ingestion/section.py and the section  *)
(* annotation of ingestion/processor.py) is modelled by value in           *)
(* SpecSections: a text is a sequence of lines, each reduced to the three  *)
(* things extract_sections reads of a line (leading '#', title, what       *)
(* follows 'Page '), and a section name is the sequence of the numbers of  *)
(* its dotted path.                                                        *)
(*                                                                         *)
(* SpecProcess is PDFProcessor.process_pdf and _create_chunks on the       *)
(* markdown of a PDF, a sequence of paragraphs of such lines; a chunk is   *)
(* kept as the positions of the paragraphs its text joins.  SpecImages is  *)
(* _extract_images on the images of the pages of a PDF.  SpecRetrieve is   *)
(* RAGPipeline.retrieve on the hits of a query, each by the state of its   *)
(* three serialized sub-documents, and SpecPrompt the ordering of the      *)
(* contexts in _build_prompt, with the section names compared as the       *)
(* strings they are.                                                       *)
(*                                                                         *)
(* SpecReuse gives one SectionExtractor the texts of several papers.       *)
(* SpecStore is R2ImageStore under add_paper's loop over the images of a   *)
(* paper.  SpecPack is add_paper followed by retrieve on what it inserted, *)
(* the values by their Python type and the serialized ones by their JSON   *)
(* type.  SpecLive is Spec with the fairness of an event loop whose        *)
(* awaited calls all end.                                                  *)
(***************************************************************************)
EXTENDS Integers, Sequences, FiniteSets, TLC

\* ------------------------------------------------------------------ bounds
NumPapers == 3      \* papers matching the query
MaxRuns == 2        \* calls of ingest_papers that obtain a paper list, in one behaviour
MaxCrashes == 1     \* process crashes in one behaviour
MaxLen == 3         \* lines of a text given to extract_sections, paragraphs of the
                    \* markdown of a PDF, pages of a PDF, hits of a query
MaxCount == 2       \* value of a counter of a SectionExtractor beyond which it is given
                    \* no further text

batch_size == 2     \* width of a batch (parameter batch_size of ingest_papers)

\* ------------------------------------------------------- program constants
max_tries == 3      \* backoff.on_exception(..., max_tries=3)
min_dimension == 100    \* PDFProcessor.min_dimension
min_size_bytes == 2048  \* PDFProcessor.min_size_bytes

Papers == 1..NumPapers
Fetchers == {"arxiv", "s2"}

\* contents of cache_dir when the first process starts (mkdir(exist_ok=True)
\* keeps what an earlier deployment left): nothing, or the PDF of paper 1
WarmCaches == {{}, {1}}

FetchOutcomes == {"ok", "empty", "transient", "other"}
SegmentOutcomes == {"ok", "no_chunks", "no_sections", "raise"}
InsertOutcomes == {"ok", "raise"}

\* ------------------------------------------------- documents (section.py)
\* A line of the markdown text, by what extract_sections reads of it:
\*   hashes  the number of leading '#' (0: the line does not start with '#')
\*   title   the line without its leading '#', stripped ("" or some text)
\*   frag    what follows the last 'Page ' of the line: no 'Page ' in the line,
\*           a first token int() rejects (or none at all), or one it accepts
Depths == {0, 1, 2, 3, 4}
PageNums == {0, 1, 2}
Fragments ==
    {[kind |-> "none", n |-> 0], [kind |-> "bad", n |-> 0]}
        \cup {[kind |-> "int", n |-> k] : k \in PageNums}

\* the fragments of the heading lines: of the page numbers, one
HeadingFragments == {f \in Fragments : f.kind = "int" => f.n = 2}

\* a line made of '#' only cannot hold 'Page '
Lines ==
    {l \in [hashes : Depths, title : {"", "T"}, frag : Fragments] :
        /\ l.title = "" => l.frag.kind = "none"
        /\ l.hashes = 0 => l.title = "T"
        /\ l.hashes > 0 => l.frag \in HeadingFragments}

RECURSIVE SeqsUpTo(_, _)
SeqsUpTo(S, n) ==
    IF n = 0 THEN {<<>>}
    ELSE LET shorter == SeqsUpTo(S, n - 1)
         IN  shorter \cup {Append(t, x) : t \in shorter, x \in S}

Texts == SeqsUpTo(Lines, MaxLen)

\* Python's None; a section name is the sequence of the numbers of its dotted
\* path ("3.2" is <<3, 2>>), so no name is empty
None == <<>>

\* ------------------------------------------- documents (processor.py)
\* The markdown text of a PDF is a sequence of paragraphs, the pieces between
\* two '\n\n'; a paragraph is the sequence of its lines, <<>> a blank one.
\* A line stands for the string
\*   '#' * hashes, ' ' and the title for a heading, the title for other lines,
\*   then ' Page <n>' (frag n), ' Page x' (frag a token that is no number)
Content == [hashes |-> 0, title |-> "T", frag |-> [kind |-> "none", n |-> 0]]
Heading(h) == [hashes |-> h, title |-> "T", frag |-> [kind |-> "none", n |-> 0]]
PageLine == [hashes |-> 0, title |-> "T", frag |-> [kind |-> "int", n |-> 2]]
Named(h, t) == [hashes |-> h, title |-> t, frag |-> [kind |-> "none", n |-> 0]]

\* the text "# 1 Intro\nfoo\n## 1.1 Sub\nbar": one paragraph of four lines
IntroSub == <<Named(1, "1 Intro"), Named(0, "foo"), Named(2, "1.1 Sub"), Named(0, "bar")>>

\* a blank paragraph, one line, a heading with a line of text under it, and
\* the paragraph above
Paragraphs ==
    {<<>>, IntroSub}
        \cup {<<l>> : l \in {Content, Heading(1), Heading(2), Heading(4), PageLine}}
        \cup {<<Heading(h), Content>> : h \in {1, 2}}

Markdowns == SeqsUpTo(Paragraphs, MaxLen)

\* An image of a page, as doc.get_page_images lists it (xref, width, height;
\* they belong to the xref, whatever the page) and size, the number of bytes
\* _recover_image returns for it: xref 1 is large enough, xref 2 is exactly
\* min_dimension wide and xref 3 exactly min_size_bytes long
Xrefs == {1, 2, 3}
PageImage(x) ==
    [xref |-> x,
     width |-> IF x = 2 THEN min_dimension ELSE 200,
     height |-> IF x = 2 THEN 300 ELSE 150,
     size |-> IF x = 3 THEN min_size_bytes ELSE 4096]

\* the pages of a PDF: on each page, at most two images
PdfPages == SeqsUpTo(SeqsUpTo({PageImage(x) : x \in Xrefs}, 2), MaxLen)

\* ------------------------------------------------- retrieval (rag.py)
\* A hit of collection.query, by what retrieve reads of its metadata: the
\* three serialized sub-documents, each by the way json.loads and the
\* constructors take it.
\*   chunk_metadata  "ok" (a JSON object) | "malformed" (no JSON) |
\*                   "not_dict" (JSON, but no object)
\*   paper_metadata  "ok" | "malformed"
\*   section_data    "ok" (an object Section accepts) | "absent" ("" or no key) |
\*                   "malformed" | "incomplete" (an object without one of the
\*                   required fields) | "wrong_type" (an object with a field
\*                   Section rejects) | "number" (JSON, but a number or true)
ChunkDocs == {"ok", "malformed", "not_dict"}
PaperDocs == {"ok", "malformed"}
SectionDocs == {"ok", "absent", "malformed", "incomplete", "wrong_type", "number"}
Damaged(doc) == doc \notin {"ok", "absent"}

\* the hits with at most one damaged sub-document
Hits ==
    {h \in [chunk_metadata : ChunkDocs, paper_metadata : PaperDocs,
            section_data : SectionDocs] :
        Cardinality({f \in {"chunk_metadata", "paper_metadata", "section_data"} :
                        Damaged(h[f])}) <= 1}

\* A context given to _build_prompt, by what its sort reads: the name of its
\* section (None: no section) and the chunk_index of the metadata of its
\* chunk (None: the key holds None, as __post_init__ leaves it; <<n>>: n)
SectionNames == {<<1>>, <<2>>, <<10>>, <<1, 2>>, <<1, 10>>}
Contexts == [section : SectionNames \cup {None}, chunk_index : {None, <<0>>, <<1>>}]

\* PDFProcessor(chunk_size, chunk_overlap); chunk_overlap is read as "> 0" only
ChunkSizes == {1, 4, 7, 100}
ChunkOverlaps == {0, 1}

VARIABLES
    md_lines,         \* the text given to extract_sections, split into lines
    current_sections, \* SectionExtractor.current_sections
    last_section,     \* SectionExtractor.last_section
    sections,         \* the list extract_sections returned
    raised,           \* extract_sections raised
    chunk,            \* the chunk _annotate_chunks_with_sections visited last
    doc_pc,           \* "none" | "new" | "extracted" | "annotated" |
                      \* "chunked" | "processed" | "images" | "retrieved" | "built"
    processor,        \* the PDFProcessor: chunk_size, chunk_overlap
    pdf,              \* the PDF: its markdown text and the images of its pages
    chunks,           \* the chunks _create_chunks / process_pdf returned
    images,           \* the images _extract_images / process_pdf returned
    results,          \* the hits collection.query returned to retrieve
    contexts,         \* the contexts retrieve returned / _build_prompt is given
    prompt,           \* the contexts in the order _build_prompt lists them
    bucket,           \* the objects of the R2 bucket: key and body
    paths,            \* the keys store_image has returned to add_paper
    got,              \* the last call of get_image: its xref, what it returned,
                      \* and whether the image of that xref had been stored
    paper_metadata,   \* the dict of the paper given to add_paper
    fetcher,          \* which fetcher the ingester was built with
    force_reprocess,  \* cron_batch: args.force_reprocess
    metadata_file,    \* ids with an entry in cache_dir/metadata_cache.json
    metadata_cache,   \* BatchIngester.metadata_cache (memory), per paper:
                      \* "none" | "meta" (the dict fetch_papers returned) |
                      \* "images" (that dict, with the key "images" set)
    checkpoint_file,  \* set of ids in ingestion_checkpoint.json ({} = no file)
    error_log,        \* ingestion_errors.jsonl, per paper: Seq of stage
    skip_log,         \* ingestion_skipped.jsonl, per paper: Seq of reason
    papers_dir,       \* ids p with a file ./papers/p.pdf (the fetcher's download)
    cache_dir,        \* ids p with a file cache_dir/p.pdf
    index,            \* ids whose chunks RAGPipeline.add_paper inserted
    pc,               \* "off" | "idle" | "listing" | "ready" | "batch"
    ret,              \* how the last ingest_papers call ended
    skipped_papers,   \* BatchIngester.skipped_papers (memory)
    processed_ids,    \* local of ingest_papers (memory)
    papers,           \* local of ingest_papers: the filtered paper list
    i,                \* 1-based offset in papers of the current / next batch
    st,               \* per paper: position of its process_single_paper task
    tries,            \* per paper: calls of fetch_paper_content by its task
    fetched,          \* per paper: outcome of the fetch stage of its task
    segmented,        \* per paper: outcome of process_pdf in its task
    inserted,         \* per paper: outcome of add_paper in its task
    result,           \* per paper: what gather collects for its task
    nRuns,            \* calls of ingest_papers that obtained their paper list, so far
    nCrashes,         \* crashes so far
    ckptWrites,       \* writes of the checkpoint file in the current run
    loaded_ids,       \* processed_ids as loaded from the checkpoint at the start of the run
    listed,           \* ids of the list fetch_papers returned to the current run
    skipAtBatch,      \* ids with a skip-log record when the current batch started
    attempted,        \* ids whose task got past the skip check in the current run
    crashBatch,       \* ids of the batch a crash interrupted
    faulted,          \* <<id, stage>> of every exception of process_pdf / add_paper
    skipAtRun,        \* ids with a skip-log record when the current run started
    exhausted         \* ids whose fetch failed max_tries times with a transient error

procVars == <<processor, pdf, chunks, images>>
ragVars == <<results, contexts, prompt>>
storeVars == <<bucket, paths, got, paper_metadata>>
docVars == <<md_lines, current_sections, last_section, sections, raised, chunk, doc_pc,
             procVars, ragVars, storeVars>>

vars == <<docVars, fetcher, force_reprocess, metadata_file, metadata_cache, checkpoint_file, error_log, skip_log, papers_dir, cache_dir, index,
          pc, ret, skipped_papers, processed_ids, papers, i,
          st, tries, fetched, segmented, inserted, result,
          nRuns, nCrashes, ckptWrites, loaded_ids, listed, skipAtBatch, attempted,
          crashBatch, faulted, skipAtRun, exhausted>>

config == <<fetcher, force_reprocess, docVars>>
disk == <<checkpoint_file, error_log, skip_log, papers_dir, cache_dir, index>>
taskVars == <<st, tries, fetched, segmented, inserted, result>>
runVars == <<processed_ids, papers, i, loaded_ids, listed>>
histVars == <<skipAtBatch, attempted, crashBatch, faulted, skipAtRun, exhausted>>

\* ----------------------------------------------------------------- helpers
Range(s) == {s[k] : k \in 1..Len(s)}

Last(s) == s[Len(s)]

IsPrefix(s, t) == Len(s) <= Len(t) /\ SubSeq(t, 1, Len(s)) = s

Min(a, b) == IF a < b THEN a ELSE b

NoTasks == [p \in Papers |-> "none"]

\* ids with at least one record in the skip log file
SkipLogIds(log) == {p \in Papers : log[p] # <<>>}

\* BatchIngester.__init__: skipped_papers is read from the skip log
LoadSkipLogOff(log) == {}
LoadSkipLog(log) == SkipLogIds(log)

\* _log_error: one record appended to the error log
_log_error_off(log, p, stage) == log
_log_error(log, p, stage) == [log EXCEPT ![p] = Append(@, stage)]

\* _log_skip: one record appended to the skip log (the caller adds p to skipped_papers)
_log_skip_off(log, p, reason) == log
_log_skip(log, p, reason) == [log EXCEPT ![p] = Append(@, reason)]

\* _load_cache: the metadata cache is read from its file
_load_cache(file) == [p \in Papers |-> IF p \in file THEN "meta" ELSE "none"]

\* "for paper in papers: self.metadata_cache[paper['id']] = paper"
CacheMetadata(mc, ps) == [p \in Papers |-> IF p \in Range(ps) THEN "meta" ELSE mc[p]]

\* _save_cache: the keys the file holds after json.dump(self.metadata_cache)
_save_cache(mc) == {p \in Papers : mc[p] # "none"}

\* RAGPipeline.add_paper, 'paper_metadata["images"] = image_metadata': the
\* dict of the paper is the object metadata_cache holds for its id, when the
\* cache holds one
SetImages(mc, p) == IF mc[p] = "none" THEN mc ELSE [mc EXCEPT ![p] = "images"]

\* cron_batch.main builds the ingester with the Semantic Scholar fetcher and
\* calls ingest_papers(papers=...); cli_batch.main and batch.main build it with
\* the default arXiv fetcher and call ingest_papers(query=...)
PapersGiven(f) == f = "s2"

\* ProcessedPaperTracker.get_processed_papers: the ids of the index, or the
\* empty set when the query of the index raised
TrackerResults(idx) == {idx, {}}

\* ProcessedPaperTracker.filter_new_papers
filter_new_papers(ps, seen) == SelectSeq(ps, LAMBDA p : p \notin seen)

\* the exception classes backoff retries on
IsTransient(o) == o = "transient"

\* the tries backoff allows before it lets the exception through
RetryCeilingOff == max_tries + 1
RetryCeiling == max_tries

\* "if not paper_data"
FetchFalsy(o) == o = "empty"

\* "if not chunks or not sections"
SegmentEmptyOff(o) == o = "no_chunks"
SegmentEmpty(o) == o \in {"no_chunks", "no_sections"}

\* fetcher.fetch_papers: the arXiv fetcher returns every paper of the query;
\* SemanticScholarFetcher._process_paper drops a paper whose PDF is in ./papers
FetchPapers(f, dir) ==
    LET all == [k \in 1..NumPapers |-> k]
    IN  IF f = "s2" THEN SelectSeq(all, LAMBDA p : p \notin dir) ELSE all

\* "papers = [p for p in papers if p['id'] not in processed_ids]"
FilterNewOff(ps, done) == ps
FilterNew(ps, done) == SelectSeq(ps, LAMBDA p : p \notin done)

\* (a slice one paper too wide)
BatchWide(ps, k) == {ps[j] : j \in k..Min(k + batch_size, Len(ps))}
\* "batch = papers[i:i + batch_size]"
Batch(ps, k) == {ps[j] : j \in k..Min(k + batch_size - 1, Len(ps))}

\* "if not isinstance(result, Exception): newly_processed.append(paper['id'])"
NewlyProcessedAllOrNothing(b, res) ==
    IF \E p \in b : res[p] = "exc" THEN {} ELSE b
NewlyProcessed(b, res) == {p \in b : res[p] # "exc"}

\* "processed_ids.update(newly_processed); json.dump(list(processed_ids), f)"
CheckpointContentsDelta(done, new) == new
CheckpointContents(done, new) == done \cup new

\* (the checkpoint is not read)
LoadCheckpointOff(file) == {}
\* "processed_ids = set()", then set(json.load(f)) if the checkpoint file exists
LoadCheckpoint(file) == file

\* ------------------------------------------------ SectionExtractor (pure)
\* SectionExtractor.__init__
NewCounters == [l \in {1, 2, 3} |-> 0]
NewLast == [l \in {1, 2, 3} |-> None]

\* "'Page ' in line"
HasPageFragment(line) == line.frag.kind # "none"

\* "int(line.split('Page ')[-1].split()[0])" returns (no ValueError, no IndexError)
ParsesAsInt(line) == line.frag.kind = "int"

\* "line.startswith('#')"
IsHeader(line) == line.hashes > 0

\* (no cut at depth 3)
IsDeepOff(level) == FALSE
\* "if level > 3: continue"
IsDeep(level) == level > 3

\* "self.current_sections[level] += 1" and the resets of the deeper counters
Bump(c, level) ==
    LET b == [c EXCEPT ![level] = @ + 1]
    IN  IF level = 1 THEN [b EXCEPT ![2] = 0, ![3] = 0]
        ELSE IF level = 2 THEN [b EXCEPT ![3] = 0]
        ELSE b

\* section_num: str(c1), f"{c1}.{c2}", f"{c1}.{c2}.{c3}"
SectionNum(c, level) == [k \in 1..level |-> c[k]]

\* "is_subsection=level > 2"
IsSubsection(level) == level > 2

\* "parent_name = self.last_section[level-1] if level > 2 else None"
ParentName(last, level) == IF level > 2 THEN last[level - 1] ELSE None

\* Section.get_id: f"{self.name}: {self.title}"
get_id(sec) == <<sec.name, sec.title>>

\* one iteration of "for line in lines" on the state e of the call: the page
\* cursor, the counters and pointers of the extractor, the sections so far,
\* and whether an exception has left the loop
ExtractLine(e, line) ==
    IF e.raised THEN e
    ELSE IF HasPageFragment(line) /\ ParsesAsInt(line)
    THEN [e EXCEPT !.current_page = line.frag.n]
    ELSE IF ~IsHeader(line) THEN e
    ELSE LET level == line.hashes
         IN  IF IsDeep(level) THEN e
             ELSE IF level \notin DOMAIN e.current_sections
             THEN [e EXCEPT !.raised = TRUE]          \* KeyError
             ELSE LET c == Bump(e.current_sections, level)
                      num == SectionNum(c, level)
                      last == [e.last_section EXCEPT ![level] = num]
                      sec == [name |-> num,
                              title |-> line.title,
                              start_page |-> e.current_page,
                              is_subsection |-> IsSubsection(level),
                              parent_name |-> ParentName(last, level)]
                  IN  [e EXCEPT !.current_sections = c,
                                !.last_section = last,
                                !.sections = Append(@, sec)]

RECURSIVE ExtractLines(_, _, _)
ExtractLines(e, lines, k) ==
    IF k > Len(lines) THEN e
    ELSE ExtractLines(ExtractLine(e, lines[k]), lines, k + 1)

\* extract_sections(md_text) on an extractor with counters c and pointers last
ExtractSections(c, last, lines) ==
    ExtractLines([current_page |-> 1, current_sections |-> c, last_section |-> last,
                  sections |-> <<>>, raised |-> FALSE], lines, 1)

\* "sorted(sections, key=lambda s: s.start_page)" (sorted is stable)
RECURSIVE InsertByPage(_, _)
InsertByPage(sorted, sec) ==
    IF sorted = <<>> THEN <<sec>>
    ELSE IF Last(sorted).start_page <= sec.start_page THEN Append(sorted, sec)
    ELSE Append(InsertByPage(SubSeq(sorted, 1, Len(sorted) - 1), sec), Last(sorted))

RECURSIVE SortByPage(_)
SortByPage(secs) ==
    IF secs = <<>> THEN <<>>
    ELSE InsertByPage(SortByPage(SubSeq(secs, 1, Len(secs) - 1)), Last(secs))

\* PDFProcessor._find_containing_section: the last section, in page order,
\* that starts on the chunk's page or before; None without a page number
RECURSIVE ScanSections(_, _, _, _)
ScanSections(sorted, page, k, found) ==
    IF k > Len(sorted) THEN found
    ELSE IF sorted[k].start_page <= page
    THEN ScanSections(sorted, page, k + 1, <<sorted[k]>>)
    ELSE found

_find_containing_section(page_num, secs) ==
    IF page_num = 0 THEN None
    ELSE ScanSections(SortByPage(secs), page_num, 1, None)

\* (a section_id set also when no section contains the chunk)
AnnotateAlways(page_num, secs) ==
    LET found == _find_containing_section(page_num, secs)
    IN  [page_num |-> page_num,
         section_id |-> IF found = None THEN <<None, "">> ELSE get_id(found[1])]
\* the body of the loop of _annotate_chunks_with_sections, on a chunk that
\* _create_chunks made (metadata: has_equations and page_num only)
AnnotateChunk(page_num, secs) ==
    LET found == _find_containing_section(page_num, secs)
    IN  [page_num |-> page_num,
         section_id |-> IF found = None THEN None ELSE get_id(found[1])]

\* ------------------------------------------------- PDFProcessor (pure)
\* len(line), for the string the line stands for
LineLen(l) ==
    (IF l.hashes = 0 THEN 0 ELSE IF l.title = "" THEN l.hashes ELSE l.hashes + 1)
        + Len(l.title)
        + (IF l.frag.kind = "none" THEN 0 ELSE 7)

\* len(para) after "para = para.strip()": the lines and the '\n' between them
RECURSIVE ParaLen(_)
ParaLen(para) ==
    IF para = <<>> THEN 0
    ELSE IF Len(para) = 1 THEN LineLen(para[1])
    ELSE ParaLen(SubSeq(para, 1, Len(para) - 1)) + 1 + LineLen(Last(para))

\* the lines of '\n\n'.join(paragraphs), the empty ones left out
RECURSIVE LinesOf(_)
LinesOf(paragraphs) ==
    IF paragraphs = <<>> THEN <<>>
    ELSE LinesOf(SubSeq(paragraphs, 1, Len(paragraphs) - 1)) \o Last(paragraphs)

\* _clean_text: runs of blank lines become one '\n\n' and the text is
\* stripped (no blank paragraph is left), and the '#' that start a line
\* become "# "
_clean_text(text) ==
    LET clean(l) == IF l.hashes > 0 THEN [l EXCEPT !.hashes = 1] ELSE l
        kept == SelectSeq(text, LAMBDA para : para # <<>>)
    IN  [k \in 1..Len(kept) |-> [j \in 1..Len(kept[k]) |-> clean(kept[k][j])]]

\* _estimate_page_num: the number of the first "Page (\d+)" of the text, or 1
_estimate_page_num(lines) ==
    LET hits == {k \in 1..Len(lines) : lines[k].frag.kind = "int"}
    IN  IF hits = {} THEN 1
        ELSE lines[CHOOSE k \in hits : \A j \in hits : k <= j].frag.n

\* the paragraphs of a chunk: paras are their positions in text.split('\n\n')
ChunkParagraphs(text, paras) == [k \in 1..Len(paras) |-> text[paras[k]]]

\* len('\n\n'.join(current_chunk))
RECURSIVE JoinedLen(_)
JoinedLen(paragraphs) ==
    IF paragraphs = <<>> THEN 0
    ELSE IF Len(paragraphs) = 1 THEN ParaLen(paragraphs[1])
    ELSE JoinedLen(SubSeq(paragraphs, 1, Len(paragraphs) - 1)) + 2
             + ParaLen(Last(paragraphs))

\* PaperChunk(text='\n\n'.join(current_chunk), metadata={has_equations,
\* page_num}) after __post_init__: the other keys of the metadata are None
\* (no line of the model holds '$$'); is_subsection None: the key is absent
PaperChunk(text, paras) ==
    [paras |-> paras,
     has_equations |-> FALSE,
     page_num |-> _estimate_page_num(LinesOf(ChunkParagraphs(text, paras))),
     section_id |-> None,
     chunk_index |-> None,
     is_subsection |-> None]

\* (the buffer restarts with its first paragraph)
OverlapFirst(current_chunk, chunk_overlap) ==
    IF chunk_overlap > 0 THEN <<Head(current_chunk)>> ELSE <<>>
\* "current_chunk = current_chunk[-1:]" when chunk_overlap > 0, else []
Overlap(current_chunk, chunk_overlap) ==
    IF chunk_overlap > 0 THEN <<Last(current_chunk)>> ELSE <<>>

\* one iteration of "for para in paragraphs" of _create_chunks on the state b
\* of the call: the chunks so far, the buffer and its length
CreateStep(b, text, k, chunk_size, chunk_overlap) ==
    LET len == ParaLen(text[k])
    IN  IF len = 0 THEN b
        ELSE IF b.current_length + len > chunk_size /\ b.current_chunk # <<>>
        THEN LET seed == Overlap(b.current_chunk, chunk_overlap)
             IN  [chunks |-> Append(b.chunks, PaperChunk(text, b.current_chunk)),
                  current_chunk |-> Append(seed, k),
                  current_length |->
                      (IF seed = <<>> THEN 0 ELSE ParaLen(text[seed[1]])) + len]
        ELSE [b EXCEPT !.current_chunk = Append(@, k),
                       !.current_length = @ + len]

RECURSIVE CreateSteps(_, _, _, _, _)
CreateSteps(b, text, k, chunk_size, chunk_overlap) ==
    IF k > Len(text) THEN b
    ELSE CreateSteps(CreateStep(b, text, k, chunk_size, chunk_overlap),
                     text, k + 1, chunk_size, chunk_overlap)

\* PDFProcessor._create_chunks(text)
CreateChunks(text, chunk_size, chunk_overlap) ==
    LET b == CreateSteps([chunks |-> <<>>, current_chunk |-> <<>>, current_length |-> 0],
                         text, 1, chunk_size, chunk_overlap)
    IN  IF b.current_chunk # <<>>
        THEN Append(b.chunks, PaperChunk(text, b.current_chunk))
        ELSE b.chunks

\* _annotate_chunks_with_sections on one chunk of the list
Annotated(c, secs) ==
    LET found == _find_containing_section(c.page_num, secs)
    IN  [c EXCEPT !.section_id = AnnotateChunk(c.page_num, secs).section_id,
                  !.is_subsection = IF found = None THEN @ ELSE found[1].is_subsection]

\* ExtractedImage(...): the dataclass has no default for the fields below;
\* a call that leaves one out raises TypeError (None)
ImageFields == {"xref", "page_num", "width", "height", "image_data", "extension",
                "figure_number"}
ExtractedImage(args) ==
    IF ImageFields \subseteq DOMAIN args THEN <<args>> ELSE None

\* one iteration of "for img in page_images" on the state s of the call: the
\* images so far, seen_xrefs, and whether an exception has left the loops
ImageStep(s, page_num, img, secs) ==
    IF s.raised THEN s
    ELSE IF img.xref \in s.seen_xrefs THEN s
    ELSE IF Min(img.width, img.height) <= min_dimension THEN s
    ELSE IF img.size <= min_size_bytes THEN s
    ELSE LET found == _find_containing_section(page_num + 1, secs)
             made == ExtractedImage(
                         [xref |-> img.xref,
                          page_num |-> page_num + 1,
                          width |-> img.width,
                          height |-> img.height,
                          image_data |-> img.size,
                          extension |-> "png",
                          section_id |-> IF found = None THEN None
                                         ELSE get_id(found[1])])
         IN  IF made = None THEN [s EXCEPT !.raised = TRUE]
             ELSE [s EXCEPT !.images = Append(@, made[1]),
                            !.seen_xrefs = @ \cup {img.xref}]

RECURSIVE PageSteps(_, _, _, _, _)
PageSteps(s, page_num, page_images, k, secs) ==
    IF k > Len(page_images) THEN s
    ELSE PageSteps(ImageStep(s, page_num, page_images[k], secs),
                   page_num, page_images, k + 1, secs)

\* "for page_num in range(doc.page_count)": pages[n + 1] is page n
RECURSIVE DocSteps(_, _, _, _)
DocSteps(s, pages, n, secs) ==
    IF n >= Len(pages) THEN s
    ELSE DocSteps(PageSteps(s, n, pages[n + 1], 1, secs), pages, n + 1, secs)

\* PDFProcessor._extract_images(pdf_path, sections)
ExtractImages(pages, secs) ==
    DocSteps([images |-> <<>>, seen_xrefs |-> {}, raised |-> FALSE], pages, 0, secs)

\* ---------------------------------------------------- RAGPipeline (pure)
\* one iteration of the loop of retrieve over the hits: the context of the
\* hit, or None when the iteration raises
\*   json.loads(meta["chunk_metadata"]), json.loads(meta["paper_metadata"]):
\*       JSONDecodeError, outside any try
\*   PaperChunk(text, metadata): ValueError when the metadata is no dict
\*   section_data: JSONDecodeError and ValueError (pydantic's ValidationError
\*       is one) are caught and logged, a missing field is logged; TypeError
\*       ("field in section_data" on a number) is not caught
Reconstruct(hit) ==
    IF hit.chunk_metadata = "malformed" THEN None
    ELSE IF hit.paper_metadata = "malformed" THEN None
    ELSE IF hit.chunk_metadata = "not_dict" THEN None
    ELSE IF hit.section_data = "number" THEN None
    ELSE <<[chunk |-> "chunk",
            paper_metadata |-> "paper",
            section |-> IF hit.section_data = "ok" THEN "section" ELSE None]>>

\* RAGPipeline.retrieve, from the hits collection.query returned: the
\* contexts, or raised when an iteration raises
Retrieve(hits) ==
    IF \E k \in 1..Len(hits) : Reconstruct(hits[k]) = None
    THEN [raised |-> TRUE, contexts |-> <<>>]
    ELSE [raised |-> FALSE,
          contexts |-> [k \in 1..Len(hits) |-> Reconstruct(hits[k])[1]]]

\* str(n) as the sequence of its characters, a character by its rank in
\* the order of the code points: '.' is 0 and the digit d is d + 1
RECURSIVE Digits(_)
Digits(n) == IF n < 10 THEN <<n + 1>> ELSE Append(Digits(n \div 10), (n % 10) + 1)

\* Section.name, the string f"{c1}.{c2}.{c3}"
RECURSIVE NameStr(_)
NameStr(name) ==
    IF Len(name) = 1 THEN Digits(name[1])
    ELSE NameStr(SubSeq(name, 1, Len(name) - 1)) \o <<0>> \o Digits(Last(name))

\* Python's "<" on two strings
RECURSIVE StrLess(_, _)
StrLess(a, b) ==
    IF b = <<>> THEN FALSE
    ELSE IF a = <<>> THEN TRUE
    ELSE IF Head(a) # Head(b) THEN Head(a) < Head(b)
    ELSE StrLess(Tail(a), Tail(b))

\* the first component of the sort key: "x.section.name if x.section else '999'"
NameKey(ctx) == IF ctx.section = None THEN Digits(999) ELSE NameStr(ctx.section)

\* Python's "<" on the keys (name, chunk_index) of two contexts: the first
\* components that differ are compared
KeyLess(a, b) ==
    IF NameKey(a) # NameKey(b) THEN StrLess(NameKey(a), NameKey(b))
    ELSE a.chunk_index # b.chunk_index /\ a.chunk_index[1] < b.chunk_index[1]

\* "<" raises TypeError on None and an int: two contexts of the list have the
\* same name and only one of them a chunk_index
SortRaises(ctxs) ==
    \E j, k \in 1..Len(ctxs) :
        /\ NameKey(ctxs[j]) = NameKey(ctxs[k])
        /\ ctxs[j].chunk_index = None
        /\ ctxs[k].chunk_index # None

\* sorted(data["contexts"], key=...) (sorted is stable)
RECURSIVE InsertByKey(_, _)
InsertByKey(sorted, ctx) ==
    IF sorted = <<>> THEN <<ctx>>
    ELSE IF ~KeyLess(ctx, Last(sorted)) THEN Append(sorted, ctx)
    ELSE Append(InsertByKey(SubSeq(sorted, 1, Len(sorted) - 1), ctx), Last(sorted))

RECURSIVE SortByKey(_)
SortByKey(ctxs) ==
    IF ctxs = <<>> THEN <<>>
    ELSE InsertByKey(SortByKey(SubSeq(ctxs, 1, Len(ctxs) - 1)), Last(ctxs))

\* ------------------------------------------------------------------- Init
Start ==
    /\ metadata_file = {}
    /\ metadata_cache = NoTasks
    /\ checkpoint_file = {}
    /\ error_log = [p \in Papers |-> <<>>]
    /\ skip_log = [p \in Papers |-> <<>>]
    /\ papers_dir = {}
    /\ cache_dir \in WarmCaches
    /\ index = {}
    /\ pc = "off"
    /\ ret = "none"
    /\ skipped_papers = {}
    /\ processed_ids = {}
    /\ papers = <<>>
    /\ i = 1
    /\ st = NoTasks
    /\ tries = [p \in Papers |-> 0]
    /\ fetched = NoTasks
    /\ segmented = NoTasks
    /\ inserted = NoTasks
    /\ result = NoTasks
    /\ nRuns = 0
    /\ nCrashes = 0
    /\ ckptWrites = 0
    /\ loaded_ids = {}
    /\ listed = {}
    /\ skipAtBatch = {}
    /\ attempted = {}
    /\ crashBatch = {}
    /\ faulted = {}
    /\ skipAtRun = {}
    /\ exhausted = {}

\* no PDF is being processed
NoProcessor ==
    /\ processor = [chunk_size |-> 1000, chunk_overlap |-> 100]
    /\ pdf = [text |-> <<>>, pages |-> <<>>]
    /\ chunks = <<>>
    /\ images = <<>>

\* no query is being answered
NoRetrieval ==
    /\ results = <<>>
    /\ contexts = <<>>
    /\ prompt = <<>>

\* no image is being stored
NoStore ==
    /\ bucket = {}
    /\ paths = <<>>
    /\ got = None
    /\ paper_metadata = None

\* no document is being segmented
NoDocument ==
    /\ md_lines = <<>>
    /\ current_sections = NewCounters
    /\ last_section = NewLast
    /\ sections = <<>>
    /\ raised = FALSE
    /\ chunk = None
    /\ doc_pc = "none"
    /\ NoProcessor
    /\ NoRetrieval
    /\ NoStore

\* a deployment that starts without --force-reprocess
Init ==
    /\ fetcher \in Fetchers
    /\ force_reprocess = FALSE
    /\ Start
    /\ NoDocument

ClearTasks ==
    /\ st' = NoTasks
    /\ tries' = [p \in Papers |-> 0]
    /\ fetched' = NoTasks
    /\ segmented' = NoTasks
    /\ inserted' = NoTasks
    /\ result' = NoTasks

\* ---------------------------------------------------------------- actions
\* ingest_papers, up to "await self.fetcher.fetch_papers": the checkpoint is loaded
BeginRun ==
    /\ nRuns < MaxRuns
    /\ pc' = "listing"
    /\ ret' = "running"
    /\ processed_ids' = LoadCheckpoint(checkpoint_file)
    /\ loaded_ids' = LoadCheckpoint(checkpoint_file)
    /\ papers' = <<>>
    /\ listed' = {}
    /\ i' = 1
    /\ ckptWrites' = 0
    /\ attempted' = {}
    /\ skipAtRun' = SkipLogIds(skip_log)
    /\ skipAtBatch' = SkipLogIds(skip_log)
    /\ ClearTasks
    /\ UNCHANGED <<config, metadata_file, disk, nRuns, nCrashes, crashBatch, faulted, exhausted>>

\* main() of a new process: BatchIngester.__init__ reads the skip log, then
\* ingest_papers is called
Main ==
    /\ pc \in {"off", "idle"}
    /\ skipped_papers' = LoadSkipLog(skip_log)
    /\ metadata_cache' = _load_cache(metadata_file)
    /\ BeginRun

\* a further call of ingest_papers on the same BatchIngester (cli_batch, "Ingest more papers?")
IngestMore ==
    /\ pc = "idle"
    /\ UNCHANGED <<skipped_papers, metadata_cache>>
    /\ BeginRun

\* fetch_papers returns.  cron_batch.main calls it itself, drops the papers the
\* tracker knows unless --force-reprocess is given, and passes the list as
\* papers=; the other callers pass query= and ingest_papers calls fetch_papers,
\* caches the metadata and saves the cache.  In both cases ingest_papers then
\* filters the list by the loaded checkpoint.
ListReturn ==
    /\ pc = "listing"
    /\ \E seen \in (IF PapersGiven(fetcher) /\ ~force_reprocess
                    THEN TrackerResults(index) ELSE {{}}) :
         LET all == FetchPapers(fetcher, papers_dir)
             l == filter_new_papers(all, seen)
             f == FilterNew(l, processed_ids)
             mc == IF PapersGiven(fetcher) THEN metadata_cache
                   ELSE CacheMetadata(metadata_cache, l)
         IN  /\ listed' = Range(l)
             /\ papers' = f
             /\ pc' = IF f = <<>> THEN "idle" ELSE "ready"
             /\ ret' = IF f = <<>> THEN "nothing_new" ELSE ret
             /\ metadata_cache' = mc
             /\ metadata_file' = IF PapersGiven(fetcher) THEN metadata_file
                                 ELSE _save_cache(mc)
    /\ nRuns' = nRuns + 1
    /\ UNCHANGED <<config, disk, skipped_papers, processed_ids, i, taskVars,
                   nCrashes, ckptWrites, loaded_ids, histVars>>

\* (the checkpoint opened for writing before the list is there)
ListRaiseTruncates ==
    /\ pc = "listing"
    /\ pc' = "idle"
    /\ ret' = "list_failed"
    /\ checkpoint_file' = {}
    /\ UNCHANGED <<config, metadata_file, metadata_cache, error_log, skip_log, papers_dir,
                   cache_dir, index, skipped_papers, runVars, taskVars,
                   nRuns, nCrashes, ckptWrites, histVars>>
\* fetch_papers raises: "return 0"
ListRaise ==
    /\ pc = "listing"
    /\ pc' = "idle"
    /\ ret' = "list_failed"
    /\ UNCHANGED <<config, metadata_file, metadata_cache, disk, skipped_papers, runVars, taskVars,
                   nRuns, nCrashes, ckptWrites, histVars>>

\* process_single_paper, from its start to its first await: "skipped" when the
\* id is in skipped_papers, "cached" when cache_dir holds its PDF, else "fetch"
FirstStepNoSkipCheck(p, skipped, cache) ==
    IF p \in cache THEN "cached" ELSE "fetch"
FirstStepNoCache(p, skipped, cache) ==
    IF p \in skipped THEN "skipped" ELSE "fetch"
FirstStep(p, skipped, cache) ==
    IF p \in skipped THEN "skipped"
    ELSE IF p \in cache THEN "cached"
    ELSE "fetch"

\* one iteration of "for i in range(0, len(papers), batch_size)", up to the
\* suspension of gather: a task is created for every paper of the batch and
\* runs to its first await (the call of fetch_paper_content or of process_pdf)
\* or, for an id of skipped_papers, to its "return False"
StartBatch ==
    /\ pc = "ready"
    /\ pc' = "batch"
    /\ LET b == Batch(papers, i)
           first == [p \in Papers |-> FirstStep(p, skipped_papers, cache_dir)]
       IN  /\ st' = [p \in Papers |->
                        IF p \notin b THEN "none"
                        ELSE IF first[p] = "skipped" THEN "done"
                        ELSE IF first[p] = "cached" THEN "segmenting"
                        ELSE "fetching"]
           /\ tries' = [p \in Papers |-> IF p \in b /\ first[p] = "fetch" THEN 1 ELSE 0]
           /\ fetched' = [p \in Papers |->
                        IF p \in b /\ first[p] = "cached" THEN "cached" ELSE "none"]
           /\ result' = [p \in Papers |->
                        IF p \in b /\ first[p] = "skipped" THEN "false" ELSE "none"]
           /\ attempted' = attempted \cup {p \in b : first[p] # "skipped"}
    /\ segmented' = NoTasks
    /\ inserted' = NoTasks
    /\ skipAtBatch' = SkipLogIds(skip_log)
    /\ UNCHANGED <<config, metadata_file, metadata_cache, disk, ret, skipped_papers, runVars, nRuns, nCrashes,
                   ckptWrites, crashBatch, faulted, skipAtRun, exhausted>>

\* a call of fetch_paper_content made by _fetch_with_retry ends with outcome o
FetchReturn(p, o) ==
    /\ pc = "batch"
    /\ st[p] = "fetching"
    /\ fetched' = [fetched EXCEPT ![p] = o]
    /\ IF o = "ok"
       THEN /\ papers_dir' = papers_dir \cup {p}
            /\ cache_dir' = cache_dir \cup {p}
            /\ st' = [st EXCEPT ![p] = "segmenting"]
            /\ UNCHANGED <<error_log, skip_log, skipped_papers, tries, result, exhausted>>
       ELSE IF FetchFalsy(o)
       THEN /\ skip_log' = _log_skip(skip_log, p, "fetch_failed")
            /\ skipped_papers' = skipped_papers \cup {p}
            /\ st' = [st EXCEPT ![p] = "done"]
            /\ result' = [result EXCEPT ![p] = "false"]
            /\ UNCHANGED <<error_log, papers_dir, cache_dir, tries, exhausted>>
       ELSE IF IsTransient(o) /\ tries[p] < RetryCeiling
       THEN /\ error_log' = _log_error(error_log, p, "fetch")
            /\ tries' = [tries EXCEPT ![p] = @ + 1]
            /\ UNCHANGED <<skip_log, skipped_papers, papers_dir, cache_dir, st, result,
                           exhausted>>
       ELSE /\ error_log' = _log_error(_log_error(error_log, p, "fetch"), p, "overall")
            /\ skip_log' = _log_skip(skip_log, p, "rag_error")
            /\ skipped_papers' = skipped_papers \cup {p}
            /\ st' = [st EXCEPT ![p] = "done"]
            /\ result' = [result EXCEPT ![p] = "exc"]
            /\ exhausted' = IF IsTransient(o) THEN exhausted \cup {p} ELSE exhausted
            /\ UNCHANGED <<papers_dir, cache_dir, tries>>
    /\ UNCHANGED <<config, metadata_file, metadata_cache, checkpoint_file, index, pc, ret, runVars, segmented, inserted,
                   nRuns, nCrashes, ckptWrites, skipAtBatch, attempted, crashBatch,
                   faulted, skipAtRun>>

\* process_pdf ends with outcome o
SegmentReturn(p, o) ==
    /\ pc = "batch"
    /\ st[p] = "segmenting"
    /\ segmented' = [segmented EXCEPT ![p] = o]
    /\ IF o = "raise"
       THEN /\ error_log' = _log_error(_log_error(error_log, p, "process"), p, "overall")
            /\ skip_log' = _log_skip(_log_skip(skip_log, p, "process_error"), p, "rag_error")
            /\ skipped_papers' = skipped_papers \cup {p}
            /\ st' = [st EXCEPT ![p] = "done"]
            /\ result' = [result EXCEPT ![p] = "exc"]
            /\ faulted' = faulted \cup {<<p, "process">>}
       ELSE IF SegmentEmpty(o)
       THEN /\ skip_log' = _log_skip(skip_log, p, "processing_failed")
            /\ skipped_papers' = skipped_papers \cup {p}
            /\ st' = [st EXCEPT ![p] = "done"]
            /\ result' = [result EXCEPT ![p] = "false"]
            /\ UNCHANGED <<error_log, faulted>>
       ELSE /\ st' = [st EXCEPT ![p] = "indexing"]
            /\ UNCHANGED <<error_log, skip_log, skipped_papers, result, faulted>>
    /\ UNCHANGED <<config, metadata_file, metadata_cache, checkpoint_file, papers_dir, cache_dir, index, pc, ret, runVars,
                   tries, fetched, inserted, nRuns, nCrashes, ckptWrites, skipAtBatch,
                   attempted, crashBatch, skipAtRun, exhausted>>

\* RAGPipeline.add_paper ends with outcome o
InsertReturn(p, o) ==
    /\ pc = "batch"
    /\ st[p] = "indexing"
    /\ inserted' = [inserted EXCEPT ![p] = o]
    /\ st' = [st EXCEPT ![p] = "done"]
    /\ IF o = "raise"
       THEN /\ \E late \in BOOLEAN :
                   metadata_cache' = IF late THEN SetImages(metadata_cache, p)
                                     ELSE metadata_cache
            /\ error_log' = _log_error(_log_error(error_log, p, "rag"), p, "overall")
            /\ skip_log' = _log_skip(_log_skip(skip_log, p, "rag_error"), p, "rag_error")
            /\ skipped_papers' = skipped_papers \cup {p}
            /\ result' = [result EXCEPT ![p] = "exc"]
            /\ faulted' = faulted \cup {<<p, "rag">>}
            /\ UNCHANGED index
       ELSE /\ index' = index \cup {p}
            /\ metadata_cache' = SetImages(metadata_cache, p)
            /\ result' = [result EXCEPT ![p] = "true"]
            /\ UNCHANGED <<error_log, skip_log, skipped_papers, faulted>>
    /\ UNCHANGED <<config, metadata_file, checkpoint_file, papers_dir, cache_dir, pc, ret, runVars,
                   tries, fetched, segmented, nRuns, nCrashes, ckptWrites, skipAtBatch,
                   attempted, crashBatch, skipAtRun, exhausted>>

\* gather returns once every task of the batch has finished; the results are
\* partitioned and the checkpoint file is rewritten
Commit ==
    /\ pc = "batch"
    /\ \A p \in Batch(papers, i) : st[p] = "done"
    /\ LET new == NewlyProcessed(Batch(papers, i), result)
       IN  /\ processed_ids' = processed_ids \cup new
           /\ checkpoint_file' = CheckpointContents(processed_ids, new)
    /\ ckptWrites' = ckptWrites + 1
    /\ i' = i + batch_size
    /\ pc' = IF i + batch_size <= Len(papers) THEN "ready" ELSE "idle"
    /\ ret' = IF i + batch_size <= Len(papers) THEN ret ELSE "finished"
    /\ UNCHANGED <<config, metadata_file, metadata_cache, error_log, skip_log, papers_dir, cache_dir, index,
                   skipped_papers, papers, loaded_ids, listed, taskVars, nRuns, nCrashes,
                   histVars>>

\* the process dies during a run: its memory is lost, the files stay
Crash ==
    /\ pc \in {"listing", "ready", "batch"}
    /\ nCrashes < MaxCrashes
    /\ nCrashes' = nCrashes + 1
    /\ pc' = "off"
    /\ ret' = "crashed"
    /\ crashBatch' = IF pc = "batch" THEN Batch(papers, i) ELSE {}
    /\ skipped_papers' = {}
    /\ metadata_cache' = NoTasks
    /\ processed_ids' = {}
    /\ papers' = <<>>
    /\ i' = 1
    /\ ClearTasks
    /\ UNCHANGED <<config, metadata_file, disk, nRuns, ckptWrites, loaded_ids, listed, skipAtBatch,
                   attempted, faulted, skipAtRun, exhausted>>

Next ==
    \/ Main
    \/ IngestMore
    \/ ListReturn
    \/ ListRaise
    \/ StartBatch
    \/ \E p \in Papers, o \in FetchOutcomes : FetchReturn(p, o)
    \/ \E p \in Papers, o \in SegmentOutcomes : SegmentReturn(p, o)
    \/ \E p \in Papers, o \in InsertOutcomes : InsertReturn(p, o)
    \/ Commit

Spec == Init /\ [][Next]_vars

\* cron_batch started with --force-reprocess
InitForce ==
    /\ fetcher = "s2"
    /\ force_reprocess = TRUE
    /\ Start
    /\ NoDocument

SpecForce == InitForce /\ [][Next]_vars

\* ---------------------------------------------- segmentation of a document
\* the orchestrator's variables, which the segmentation of a text leaves alone
orchVars == <<fetcher, force_reprocess, metadata_file, metadata_cache, disk,
              pc, ret, skipped_papers, runVars, taskVars,
              nRuns, nCrashes, ckptWrites, histVars>>

\* a text and a newly constructed SectionExtractor
InitSections ==
    /\ fetcher = "arxiv"
    /\ force_reprocess = FALSE
    /\ Start
    /\ cache_dir = {}
    /\ md_lines \in Texts
    /\ current_sections = NewCounters
    /\ last_section = NewLast
    /\ sections = <<>>
    /\ raised = FALSE
    /\ chunk = None
    /\ doc_pc = "new"
    /\ NoProcessor
    /\ NoRetrieval
    /\ NoStore

\* "sections = await self.section_extractor.extract_sections(text)"
extract_sections ==
    /\ doc_pc = "new"
    /\ LET e == ExtractSections(current_sections, last_section, md_lines)
       IN  /\ current_sections' = e.current_sections
           /\ last_section' = e.last_section
           /\ sections' = IF e.raised THEN <<>> ELSE e.sections
           /\ raised' = e.raised
    /\ doc_pc' = "extracted"
    /\ UNCHANGED <<md_lines, chunk, procVars, ragVars, storeVars, orchVars>>

\* _annotate_chunks_with_sections visits a chunk whose page_num is n
\* (_estimate_page_num: the number after the first "Page " of the chunk, or 1)
_annotate_chunks_with_sections(n) ==
    /\ doc_pc \in {"extracted", "annotated"}
    /\ ~raised
    /\ chunk' = AnnotateChunk(n, sections)
    /\ doc_pc' = "annotated"
    /\ UNCHANGED <<md_lines, current_sections, last_section, sections, raised,
                   procVars, ragVars, storeVars, orchVars>>

NextSections ==
    \/ extract_sections
    \/ \E n \in PageNums : _annotate_chunks_with_sections(n)

SpecSections == InitSections /\ [][NextSections]_vars

\* ------------------------------------ one extractor, several documents
\* the texts of the papers of a run: body lines and headings of depth 1 to 3
PaperTexts == SeqsUpTo({Content} \cup {Heading(h) : h \in 1..3}, MaxLen)

\* the text of the first paper and the SectionExtractor that
\* PDFProcessor.__init__ constructed
InitReuse ==
    /\ fetcher = "arxiv"
    /\ force_reprocess = FALSE
    /\ Start
    /\ cache_dir = {}
    /\ md_lines \in PaperTexts
    /\ current_sections = NewCounters
    /\ last_section = NewLast
    /\ sections = <<>>
    /\ raised = FALSE
    /\ chunk = None
    /\ doc_pc = "new"
    /\ NoProcessor
    /\ NoRetrieval
    /\ NoStore

\* process_pdf of the next paper gives its text to self.section_extractor,
\* the extractor of the papers before it (batch.py: one PDFProcessor per
\* BatchIngester); no paper after a counter has reached MaxCount
next_paper(text) ==
    /\ doc_pc = "extracted"
    /\ \A l \in DOMAIN current_sections : current_sections[l] < MaxCount
    /\ md_lines' = text
    /\ sections' = <<>>
    /\ raised' = FALSE
    /\ doc_pc' = "new"
    /\ UNCHANGED <<current_sections, last_section, chunk, procVars, ragVars, storeVars, orchVars>>

SpecReuse ==
    InitReuse /\ [][extract_sections \/ \E text \in PaperTexts : next_paper(text)]_vars

\* ------------------------------------------------ processing of a PDF
\* a PDFProcessor, a newly constructed SectionExtractor and a PDF: its
\* markdown (pymupdf4llm.to_markdown) and its pages, without an image or with
\* one
InitProcess ==
    /\ fetcher = "arxiv"
    /\ force_reprocess = FALSE
    /\ Start
    /\ cache_dir = {}
    /\ md_lines = <<>>
    /\ current_sections = NewCounters
    /\ last_section = NewLast
    /\ sections = <<>>
    /\ raised = FALSE
    /\ chunk = None
    /\ doc_pc = "new"
    /\ processor \in [chunk_size : ChunkSizes, chunk_overlap : ChunkOverlaps]
    /\ pdf \in [text : Markdowns, pages : {<<>>, <<<<PageImage(1)>>>>}]
    /\ chunks = <<>>
    /\ images = <<>>
    /\ NoRetrieval
    /\ NoStore

\* PDFProcessor.process_pdf(pdf_path): _get_pdf_text, extract_sections,
\* _create_chunks, _annotate_chunks_with_sections, _extract_images
process_pdf ==
    /\ doc_pc = "new"
    /\ LET text == _clean_text(pdf.text)
           e == ExtractSections(current_sections, last_section, LinesOf(text))
           cs == CreateChunks(text, processor.chunk_size, processor.chunk_overlap)
           im == ExtractImages(pdf.pages, e.sections)
           failed == e.raised \/ im.raised
       IN  /\ md_lines' = LinesOf(text)
           /\ current_sections' = e.current_sections
           /\ last_section' = e.last_section
           /\ raised' = failed
           /\ sections' = IF failed THEN <<>> ELSE e.sections
           /\ chunks' = IF failed THEN <<>>
                        ELSE [k \in 1..Len(cs) |-> Annotated(cs[k], e.sections)]
           /\ images' = IF failed THEN <<>> ELSE im.images
    /\ doc_pc' = "processed"
    /\ UNCHANGED <<chunk, processor, pdf, ragVars, storeVars, orchVars>>

\* PDFProcessor._create_chunks(text), on the markdown as it is
_create_chunks ==
    /\ doc_pc = "new"
    /\ chunks' = CreateChunks(pdf.text, processor.chunk_size, processor.chunk_overlap)
    /\ doc_pc' = "chunked"
    /\ UNCHANGED <<md_lines, current_sections, last_section, sections, raised, chunk,
                   processor, pdf, images, ragVars, storeVars, orchVars>>

NextProcess ==
    \/ process_pdf
    \/ _create_chunks

SpecProcess == InitProcess /\ [][NextProcess]_vars

\* a PDFProcessor, a PDF by the images of its pages, and the sections of its
\* text: none, or one that starts on page 1
InitImages ==
    /\ fetcher = "arxiv"
    /\ force_reprocess = FALSE
    /\ Start
    /\ cache_dir = {}
    /\ md_lines = <<>>
    /\ current_sections = NewCounters
    /\ last_section = NewLast
    /\ sections \in {<<>>, <<[name |-> <<1>>, title |-> "T", start_page |-> 1,
                             is_subsection |-> FALSE, parent_name |-> None]>>}
    /\ raised = FALSE
    /\ chunk = None
    /\ doc_pc = "new"
    /\ processor = [chunk_size |-> 1000, chunk_overlap |-> 100]
    /\ pdf \in [text : {<<>>}, pages : PdfPages]
    /\ chunks = <<>>
    /\ images = <<>>
    /\ NoRetrieval
    /\ NoStore

\* PDFProcessor._extract_images(pdf_path, sections)
_extract_images ==
    /\ doc_pc = "new"
    /\ LET im == ExtractImages(pdf.pages, sections)
       IN  /\ raised' = im.raised
           /\ images' = IF im.raised THEN <<>> ELSE im.images
    /\ doc_pc' = "images"
    /\ UNCHANGED <<md_lines, current_sections, last_section, sections, chunk,
                   processor, pdf, chunks, ragVars, storeVars, orchVars>>

SpecImages == InitImages /\ [][_extract_images]_vars

\* --------------------------------------------------- answering a query
\* the variables of the segmentation, which a query leaves alone
segVars == <<md_lines, current_sections, last_section, sections, chunk, procVars,
             storeVars>>

\* a query whose hits collection.query has returned
InitRetrieve ==
    /\ fetcher = "arxiv"
    /\ force_reprocess = FALSE
    /\ Start
    /\ cache_dir = {}
    /\ md_lines = <<>>
    /\ current_sections = NewCounters
    /\ last_section = NewLast
    /\ sections = <<>>
    /\ raised = FALSE
    /\ chunk = None
    /\ doc_pc = "new"
    /\ NoProcessor
    /\ results \in SeqsUpTo(Hits, MaxLen)
    /\ contexts = <<>>
    /\ prompt = <<>>
    /\ NoStore

\* RAGPipeline.retrieve(query, top_k)
retrieve ==
    /\ doc_pc = "new"
    /\ LET r == Retrieve(results)
       IN  /\ raised' = r.raised
           /\ contexts' = r.contexts
    /\ doc_pc' = "retrieved"
    /\ UNCHANGED <<segVars, results, prompt, orchVars>>

SpecRetrieve == InitRetrieve /\ [][retrieve]_vars

\* the contexts of a query whose hits are all of one paper
InitPrompt ==
    /\ fetcher = "arxiv"
    /\ force_reprocess = FALSE
    /\ Start
    /\ cache_dir = {}
    /\ md_lines = <<>>
    /\ current_sections = NewCounters
    /\ last_section = NewLast
    /\ sections = <<>>
    /\ raised = FALSE
    /\ chunk = None
    /\ doc_pc = "new"
    /\ NoProcessor
    /\ results = <<>>
    /\ contexts \in SeqsUpTo(Contexts, MaxLen)
    /\ prompt = <<>>
    /\ NoStore

\* RAGPipeline._build_prompt(query, contexts): the contexts of the paper in
\* the order the prompt lists them
_build_prompt ==
    /\ doc_pc = "new"
    /\ raised' = SortRaises(contexts)
    /\ prompt' = IF SortRaises(contexts) THEN <<>> ELSE SortByKey(contexts)
    /\ doc_pc' = "built"
    /\ UNCHANGED <<segVars, results, contexts, orchVars>>

SpecPrompt == InitPrompt /\ [][_build_prompt]_vars

\* ----------------------------------------------- the images of a paper
\* An extracted image, by what R2ImageStore reads of it; its bytes are those
\* of the image of its xref
ImageBytes(x) == <<"bytes", x>>

\* the images of a paper, as _extract_images lists them: no xref twice, on
\* the first two pages
ImageLists ==
    {l \in SeqsUpTo({[xref |-> x, page_num |-> n, image_data |-> ImageBytes(x)] :
                         x \in Xrefs, n \in {1, 2}}, MaxLen) :
        \A j, k \in 1..Len(l) : j # k => l[j].xref # l[k].xref}

\* R2ImageStore._get_image_key: f"{paper_id}/{xref}.png"
_get_image_key(paper_id, xref) == <<paper_id, xref>>

\* s3.put_object(Bucket, Key, Body): the object of the key is replaced
put_object(objects, key, body) ==
    {o \in objects : o.key # key} \cup {[key |-> key, body |-> body]}

\* s3.get_object(Bucket, Key)["Body"].read(), None on NoSuchKey
get_object(objects, key) ==
    IF \E o \in objects : o.key = key
    THEN <<(CHOOSE o \in objects : o.key = key).body>>
    ELSE None

\* "key = self._get_image_key(paper_id, image.page_num)"
KeyOf(image) == image.page_num

\* add_paper of a paper whose images process_pdf has returned, and an empty
\* bucket
InitStore ==
    /\ fetcher = "arxiv"
    /\ force_reprocess = FALSE
    /\ Start
    /\ cache_dir = {}
    /\ md_lines = <<>>
    /\ current_sections = NewCounters
    /\ last_section = NewLast
    /\ sections = <<>>
    /\ raised = FALSE
    /\ chunk = None
    /\ doc_pc = "new"
    /\ processor = [chunk_size |-> 1000, chunk_overlap |-> 100]
    /\ pdf = [text |-> <<>>, pages |-> <<>>]
    /\ chunks = <<>>
    /\ images \in ImageLists
    /\ NoRetrieval
    /\ NoStore

\* one iteration of "for img in images" of add_paper:
\* R2ImageStore.store_image(paper_id, img) on the next image
store_image(paper_id) ==
    /\ doc_pc \in {"new", "storing"}
    /\ Len(paths) < Len(images)
    /\ LET image == images[Len(paths) + 1]
           key == _get_image_key(paper_id, KeyOf(image))
       IN  /\ bucket' = put_object(bucket, key, image.image_data)
           /\ paths' = Append(paths, key)
    /\ doc_pc' = "storing"
    /\ UNCHANGED <<md_lines, current_sections, last_section, sections, raised, chunk,
                   procVars, ragVars, got, paper_metadata, orchVars>>

\* R2ImageStore.get_image(paper_id, xref)
get_image(paper_id, xref) ==
    /\ doc_pc = "storing"
    /\ got' = [xref |-> xref,
               body |-> get_object(bucket, _get_image_key(paper_id, xref)),
               stored |-> \E k \in 1..Len(paths) : images[k].xref = xref]
    /\ UNCHANGED <<md_lines, current_sections, last_section, sections, raised, chunk,
                   doc_pc, procVars, ragVars, bucket, paths, paper_metadata, orchVars>>

SpecStore ==
    InitStore /\ [][store_image(1) \/ \E xref \in Xrefs : get_image(1, xref)]_vars

\* ----------------------------------------- the metadata of the index
\* A Python value, by its type: None, a str, an int, a bool, a list, a dict
\* (a function of its keys).  The str json.dumps returns is the text of a JSON
\* document.
Py(type, x) == [py |-> type, v |-> x]
JsonText(j) == [py |-> "str", text |-> j]

\* an optional value of the model (None or a value) as a Python value
PyOpt(type, x) == IF x = None THEN Py("None", None) ELSE Py(type, x)

\* json.dumps(value): null, true / false, a number, a string, an array, an
\* object
RECURSIVE ToJson(_)
ToJson(x) ==
    IF x.py = "None" THEN [j |-> "null"]
    ELSE IF x.py = "bool" THEN [j |-> IF x.v THEN "true" ELSE "false"]
    ELSE IF x.py = "int" THEN [j |-> "number", v |-> x.v]
    ELSE IF x.py = "str" THEN [j |-> "string", v |-> x.v]
    ELSE IF x.py = "list" THEN [j |-> "array", v |-> [k \in DOMAIN x.v |-> ToJson(x.v[k])]]
    ELSE [j |-> "object", v |-> [k \in DOMAIN x.v |-> ToJson(x.v[k])]]

\* json.loads(text) of the text of a JSON document
RECURSIVE FromJson(_)
FromJson(j) ==
    IF j.j = "null" THEN Py("None", None)
    ELSE IF j.j \in {"true", "false"} THEN Py("bool", j.j = "true")
    ELSE IF j.j = "number" THEN Py("int", j.v)
    ELSE IF j.j = "string" THEN Py("str", j.v)
    ELSE IF j.j = "array" THEN Py("list", [k \in DOMAIN j.v |-> FromJson(j.v[k])])
    ELSE Py("dict", [k \in DOMAIN j.v |-> FromJson(j.v[k])])

\* sanitize_metadata(value)
sanitize_metadata(value) ==
    IF value.py = "None" THEN Py("str", "")
    ELSE IF value.py \in {"str", "int", "bool"} THEN value
    ELSE JsonText(ToJson(value))

\* prepare_metadata(data)
prepare_metadata(data) == [k \in DOMAIN data |-> sanitize_metadata(data[k])]

\* chunk.metadata of a chunk process_pdf returned (models.py: the defaults of
\* __post_init__, and the keys _create_chunks and
\* _annotate_chunks_with_sections set; is_subsection only when set)
MetadataOf(c) ==
    LET base == [paper_id |-> Py("None", None),
                 page_num |-> Py("int", c.page_num),
                 section_id |-> PyOpt("str", c.section_id),
                 parent_section_id |-> Py("None", None),
                 chunk_index |-> Py("None", None),
                 has_equations |-> Py("bool", c.has_equations),
                 source_type |-> Py("None", None)]
    IN  Py("dict", IF c.is_subsection = None THEN base
               ELSE [k \in DOMAIN base \cup {"is_subsection"} |->
                        IF k = "is_subsection" THEN Py("bool", c.is_subsection[1])
                        ELSE base[k]])

\* the defaults __post_init__ gives to the keys of the metadata
default_metadata ==
    [paper_id |-> Py("None", None), page_num |-> Py("None", None), section_id |-> Py("None", None),
     parent_section_id |-> Py("None", None), chunk_index |-> Py("None", None),
     has_equations |-> Py("bool", FALSE), source_type |-> Py("None", None)]

\* (the defaults replace the metadata given)
DefaultsOverMetadata(metadata) ==
    IF metadata.py # "dict" THEN None
    ELSE <<Py("dict", [k \in DOMAIN default_metadata \cup DOMAIN metadata.v |->
                      IF k \in DOMAIN default_metadata THEN default_metadata[k]
                      ELSE metadata.v[k]])>>
\* PaperChunk(text, metadata).__post_init__: ValueError (None) when the
\* metadata is no dict; "{**default_metadata, **self.metadata}"
WithDefaults(metadata) ==
    IF metadata.py # "dict" THEN None
    ELSE <<Py("dict", [k \in DOMAIN default_metadata \cup DOMAIN metadata.v |->
                      IF k \in DOMAIN metadata.v THEN metadata.v[k]
                      ELSE default_metadata[k]])>>

\* "section_lookup = {section.get_id(): section for section in sections}" and
\* "section_lookup.get(section_id)": of the sections of the id, the last
Lookup(secs, id) ==
    LET hits == {k \in 1..Len(secs) : id # None /\ get_id(secs[k]) = id}
    IN  IF hits = {} THEN None
        ELSE <<secs[CHOOSE k \in hits : \A j \in hits : j <= k]>>

\* the dict section_data add_paper builds for a section
SectionData(sec) ==
    Py("dict", [id |-> Py("str", get_id(sec)),
            start_page |-> Py("int", sec.start_page),
            name |-> Py("str", sec.name),
            title |-> Py("str", sec.title),
            is_subsection |-> Py("bool", sec.is_subsection),
            parent_name |-> PyOpt("str", sec.parent_name)])

\* "paper_metadata['images'] = image_metadata": an entry for every image,
\* stored under the key store_image returned
WithImages(pm, imgs) ==
    LET entry(img) ==
            Py("dict", [figure_number |-> Py("int", img.figure_number),
                        paper_id |-> pm.v.id,
                        paper_url |-> pm.v.paper_url,
                        xref |-> Py("int", img.xref),
                        width |-> Py("int", img.width),
                        height |-> Py("int", img.height),
                        section_id |-> PyOpt("str", img.section_id),
                        storage_path |->
                            Py("str", _get_image_key(pm.v.id.v, KeyOf(img)))])
    IN  Py("dict", [k \in DOMAIN pm.v \cup {"images"} |->
                       IF k = "images"
                       THEN Py("list", [n \in 1..Len(imgs) |-> entry(imgs[n])])
                       ELSE pm.v[k]])

\* RAGPipeline.add_paper(chunks, sections, images, paper_metadata): the
\* metadatas given to collection.add, or raised (KeyError) when the paper has
\* no "paper_url" and there is an image or a chunk to read it for
AddPaper(cs, secs, imgs, pm) ==
    IF "paper_url" \notin DOMAIN pm.v /\ (imgs # <<>> \/ cs # <<>>)
    THEN [raised |-> TRUE, metadatas |-> <<>>]
    ELSE LET full == WithImages(pm, imgs)
             meta(c) ==
                 LET section == Lookup(secs, c.section_id)
                 IN  prepare_metadata(
                         [paper_id |-> full.v.id,
                          paper_url |-> full.v.paper_url,
                          chunk_metadata |-> MetadataOf(c),
                          paper_metadata |-> full,
                          section_data |-> IF section = None THEN Py("None", None)
                                           ELSE SectionData(section[1])])
         IN  [raised |-> FALSE, metadatas |-> [k \in 1..Len(cs) |-> meta(cs[k])]]

\* bool(value) of a str: the text of a JSON document is never empty
Truthy(value) == value # Py("str", "")

\* Section(**section_data): the fields of the model, the other keys ignored;
\* ValidationError (None) on a field of another type
SectionOf(data) ==
    LET d == data.v
        parent == IF "parent_name" \in DOMAIN d THEN d.parent_name ELSE Py("None", None)
    IN  IF /\ d.name.py = "str" /\ d.title.py = "str"
           /\ d.start_page.py = "int" /\ d.is_subsection.py = "bool"
           /\ parent.py \in {"str", "None"}
        THEN <<[name |-> d.name.v,
                title |-> d.title.v,
                start_page |-> d.start_page.v,
                is_subsection |-> d.is_subsection.v,
                parent_name |-> IF parent.py = "None" THEN None ELSE parent.v]>>
        ELSE None

\* one iteration of the loop of retrieve on a metadata add_paper inserted:
\* the context, or None when the iteration raises
RetrievedContext(meta) ==
    LET chunk_meta == FromJson(meta.chunk_metadata.text)
        paper_meta == FromJson(meta.paper_metadata.text)
        made == WithDefaults(chunk_meta)
        section_data == IF Truthy(meta.section_data)
                        THEN FromJson(meta.section_data.text) ELSE Py("None", None)
        required == {"name", "title", "start_page", "is_subsection"}
    IN  IF made = None THEN None
        ELSE <<[chunk |-> made[1],
                paper_metadata |-> paper_meta,
                section |-> IF section_data.py # "dict" THEN None
                            ELSE IF ~(required \subseteq DOMAIN section_data.v) THEN None
                            ELSE SectionOf(section_data)]>>

\* the paper dicts: with the key "paper_url" (semantic_scholar_fetcher.py),
\* and without it (fetcher.py)
PaperDicts ==
    {Py("dict", [id |-> Py("str", 1), title |-> Py("str", "T"), authors |-> Py("list", <<Py("str", "A")>>),
             paper_url |-> Py("str", "u")]),
     Py("dict", [id |-> Py("str", 1), title |-> Py("str", "T"), authors |-> Py("list", <<Py("str", "A")>>)])}

\* the sections of a paper: none, or some of a depth-1, a depth-2 and a
\* depth-3 section as extract_sections makes them
SectionLists ==
    LET all ==
    <<[name |-> <<1>>, title |-> "T", start_page |-> 1, is_subsection |-> FALSE,
       parent_name |-> None],
      [name |-> <<1, 1>>, title |-> "", start_page |-> 1, is_subsection |-> FALSE,
       parent_name |-> None],
      [name |-> <<1, 1, 1>>, title |-> "T", start_page |-> 2, is_subsection |-> TRUE,
       parent_name |-> <<1, 1>>]>>
    IN  {SubSeq(all, 1, n) : n \in 0..3}

\* the chunks of a paper: of page 1 or 2, without a section or annotated with
\* one of the sections above
SampleChunks ==
    {[paras |-> <<1>>, has_equations |-> FALSE, page_num |-> n, section_id |-> None,
      chunk_index |-> None, is_subsection |-> None] : n \in {1, 2}}
        \cup {[paras |-> <<1>>, has_equations |-> FALSE, page_num |-> sec.start_page,
               section_id |-> get_id(sec), chunk_index |-> None,
               is_subsection |-> <<sec.is_subsection>>] :
                   sec \in UNION {Range(l) : l \in SectionLists}}

\* the images of a paper: none, or one without a section
SampleImages ==
    {<<>>, <<[xref |-> 1, page_num |-> 1, width |-> 200, height |-> 150,
             image_data |-> ImageBytes(1), extension |-> "png", figure_number |-> 1,
             section_id |-> None]>>}

\* a paper that process_pdf has returned the chunks, sections and images of
InitPack ==
    /\ fetcher = "arxiv"
    /\ force_reprocess = FALSE
    /\ Start
    /\ cache_dir = {}
    /\ md_lines = <<>>
    /\ current_sections = NewCounters
    /\ last_section = NewLast
    /\ sections \in SectionLists
    /\ raised = FALSE
    /\ chunk = None
    /\ doc_pc = "new"
    /\ processor = [chunk_size |-> 1000, chunk_overlap |-> 100]
    /\ pdf = [text |-> <<>>, pages |-> <<>>]
    /\ chunks \in SeqsUpTo(SampleChunks, MaxLen)
    /\ images \in SampleImages
    /\ NoRetrieval
    /\ bucket = {}
    /\ paths = <<>>
    /\ got = None
    /\ paper_metadata \in PaperDicts

\* RAGPipeline.add_paper: the metadatas collection.add has taken are those
\* collection.query returns
add_paper ==
    /\ doc_pc = "new"
    /\ LET a == AddPaper(chunks, sections, images, paper_metadata)
       IN  /\ raised' = a.raised
           /\ results' = a.metadatas
           /\ paper_metadata' = IF a.raised /\ images # <<>> THEN paper_metadata
                                ELSE WithImages(paper_metadata, images)
    /\ doc_pc' = "inserted"
    /\ UNCHANGED <<md_lines, current_sections, last_section, sections, chunk,
                   procVars, contexts, prompt, bucket, paths, got, orchVars>>

\* RAGPipeline.retrieve, for a query that hits every chunk of the paper
retrieve_inserted ==
    /\ doc_pc = "inserted"
    /\ ~raised
    /\ LET made == [k \in 1..Len(results) |-> RetrievedContext(results[k])]
           failed == \E k \in 1..Len(results) : made[k] = None
       IN  /\ raised' = failed
           /\ contexts' = IF failed THEN <<>>
                          ELSE [k \in 1..Len(results) |-> made[k][1]]
    /\ doc_pc' = "retrieved"
    /\ UNCHANGED <<segVars, results, prompt, orchVars>>

SpecPack == InitPack /\ [][add_paper \/ retrieve_inserted]_vars

\* the same program, with process crashes
NextCrash ==
    \/ Next
    \/ Crash

SpecCrash == Init /\ [][NextCrash]_vars

\* the orchestrator when every collaborator call returns or raises and the
\* event loop runs every task that can run: the list arrives or fetch_papers
\* raises, every batch is started, every awaited call of a task ends, and
\* gather returns.  A new call of ingest_papers (Main, IngestMore) is up to
\* the caller.
Fairness ==
    /\ WF_vars(ListReturn \/ ListRaise)
    /\ WF_vars(StartBatch)
    /\ WF_vars(Commit)
    /\ \A p \in Papers :
           /\ WF_vars(\E o \in FetchOutcomes : FetchReturn(p, o))
           /\ WF_vars(\E o \in SegmentOutcomes : SegmentReturn(p, o))
           /\ WF_vars(\E o \in InsertOutcomes : InsertReturn(p, o))

SpecLive == Init /\ [][Next]_vars /\ Fairness

\* ======================================================================
\* Properties
\* ======================================================================

\* a collaborator (fetch_paper_content, process_pdf, add_paper) has been called
\* for p by a task of the current batch (or of the last one, until the next starts)
Invoked(p) ==
    \/ st[p] \in {"fetching", "segmenting", "indexing"}
    \/ fetched[p] # "none"
    \/ segmented[p] # "none"
    \/ inserted[p] # "none"

\* the last call of ingest_papers returned after processing its batches (or
\* after finding nothing new)
Returned == pc = "idle" /\ ret \in {"finished", "nothing_new"}

\* a batch has just been committed
Committed == pc = "ready" \/ (pc = "idle" /\ ret = "finished")

\* C1: every id of the checkpoint file is one whose fetch (or cached copy),
\* segmentation and index insertion all completed: it is in the index. An id
\* whose task ended in a skip or an exception is never in the checkpoint.
C1_CheckpointOnlyCompleted ==
    \A p \in checkpoint_file : p \in index

\* C2: in a run, no fetch, segmentation or index insertion is performed for
\* an id of the checkpoint the run loaded.
C2_Idempotent ==
    \A p \in loaded_ids : ~Invoked(p)

\* a second run has finished whose paper list held ids of the loaded checkpoint
C2_Witness ==
    /\ pc = "idle"
    /\ ret = "finished"
    /\ nRuns = 2
    /\ listed \cap loaded_ids # {}

\* C3: after a batch in which a paper raised, every paper of the batch has run to
\* its outcome, every paper of it that succeeded is in processed_ids and in the
\* checkpoint written for the batch, and the run ends only past its last batch.
C3_FailureIsolated ==
    (Committed /\ \E q \in Papers : result[q] = "exc") =>
        /\ \A p \in Papers : st[p] # "none" => st[p] = "done" /\ result[p] # "none"
        /\ \A p \in Papers : result[p] = "true" =>
               p \in processed_ids /\ p \in checkpoint_file
        /\ pc = "idle" => i > Len(papers)

\* a batch with a raising paper and a succeeding one was committed, and the
\* next batch is to come
C3_Witness ==
    /\ pc = "ready"
    /\ \E q \in Papers : result[q] = "exc"
    /\ \E p \in Papers : result[p] = "true" /\ p \in checkpoint_file

\* C4: when a run is interrupted by a crash, the papers of the interrupted
\* batch are not in the checkpoint, and a later run that returns has attempted
\* every paper of that batch that was in neither the checkpoint nor the skip
\* log when it started.
C4_CrashReattempts ==
    /\ (pc = "off" /\ ret = "crashed") => crashBatch \cap checkpoint_file = {}
    /\ (Returned /\ nCrashes > 0) =>
           \A p \in crashBatch \ (loaded_ids \cup skipAtRun) : p \in attempted

\* C5: no fetch, segmentation or index insertion is performed for an id that
\* had a skip-log record when the batch started.
C5_SkippedIsTerminal ==
    \A p \in skipAtBatch : ~Invoked(p)

\* in a later run, the task of a paper of the skip log returned at the skip check
C5_Witness ==
    \E p \in skipAtBatch : st[p] = "done" /\ result[p] = "false" /\ nRuns = 2

\* C6: the task of a paper calls fetch_paper_content at most 3 times, and not
\* at all when the cache holds the paper; a call follows another only after a
\* transient error, and any other outcome of a call ends the fetching.
C6_BoundedFetch ==
    \A p \in Papers :
        /\ tries[p] <= 3
        /\ fetched[p] = "cached" => tries[p] = 0
        /\ st[p] = "fetching" => p \notin cache_dir
        /\ (st[p] = "fetching" /\ tries[p] > 1) => fetched[p] = "transient"
        /\ fetched[p] \in {"ok", "empty", "other"} => st[p] # "fetching"

\* one task went on from the cached copy, another is at its third call
C6_Witness ==
    \E p, q \in Papers :
        /\ fetched[p] = "cached" /\ st[p] = "indexing"
        /\ st[q] = "fetching" /\ tries[q] = 3

\* the task of p, in the current batch, ended on the last transient error
ExhaustedNow(p) == result[p] = "exc" /\ fetched[p] = "transient"

\* C7: a paper whose fetch failed with a transient error at every try has a
\* skip-log record, is not added to processed_ids nor to the checkpoint by its
\* batch, and is never fetched again.
C7_ExhaustedIsSkipped ==
    \A p \in exhausted :
        /\ skip_log[p] # <<>>
        /\ st[p] # "fetching"
        /\ ExhaustedNow(p) => p \notin processed_ids /\ p \notin checkpoint_file
        /\ ~ExhaustedNow(p) => ~Invoked(p) /\ tries[p] = 0

\* a later run was given the exhausted paper again and skipped it
C7_Witness ==
    \E p \in exhausted :
        nRuns = 2 /\ Returned /\ st[p] = "done" /\ result[p] = "false"

\* C8: an empty fetch result ends the task with the skip reason fetch_failed,
\* an empty segmentation result with processing_failed; the stage is not
\* retried and no later stage is called.
C8_EmptyIsSkipped ==
    \A p \in Papers :
        /\ fetched[p] = "empty" =>
               /\ st[p] = "done" /\ result[p] = "false"
               /\ skip_log[p] # <<>> /\ Last(skip_log[p]) = "fetch_failed"
               /\ segmented[p] = "none" /\ inserted[p] = "none"
        /\ segmented[p] \in {"no_chunks", "no_sections"} =>
               /\ st[p] = "done" /\ result[p] = "false"
               /\ skip_log[p] # <<>> /\ Last(skip_log[p]) = "processing_failed"
               /\ inserted[p] = "none"

\* one paper of a batch got an empty fetch result, another an empty section list
C8_Witness ==
    \E p, q \in Papers : fetched[p] = "empty" /\ segmented[q] = "no_sections"

\* C9: an exception of segmentation or of index insertion leaves an error-log
\* record with the paper's id and the stage, and a skip-log record; both logs
\* only grow.
C9_FaultsLogged ==
    /\ [](\A f \in faulted :
            /\ \E k \in 1..Len(error_log[f[1]]) : error_log[f[1]][k] = f[2]
            /\ skip_log[f[1]] # <<>>)
    /\ [][\A p \in Papers :
            /\ IsPrefix(error_log[p], error_log'[p])
            /\ IsPrefix(skip_log[p], skip_log'[p])]_vars

\* a segmentation fault and an insertion fault have both happened
C9_Witness ==
    \E p, q \in Papers : <<p, "process">> \in faulted /\ <<q, "rag">> \in faulted

\* C10: the checkpoint file is written once per batch, when every task of the
\* batch has finished, and what is written is the whole of processed_ids: the
\* ids loaded at the start of the run, what the earlier writes held, and the
\* ids of the batch that succeeded.
C10_CheckpointPerBatch ==
    /\ [](pc \in {"ready", "batch"} \/ Committed => ckptWrites * batch_size = i - 1)
    /\ [][(checkpoint_file' # checkpoint_file \/ ckptWrites' = ckptWrites + 1) =>
            /\ pc = "batch"
            /\ \A p \in Batch(papers, i) : st[p] = "done"
            /\ ckptWrites' = ckptWrites + 1
            /\ checkpoint_file' = processed_ids'
            /\ loaded_ids \subseteq checkpoint_file'
            /\ checkpoint_file \subseteq checkpoint_file'
            /\ \A p \in Batch(papers, i) : result[p] = "true" => p \in checkpoint_file'
          ]_vars

\* the second batch of a run has been committed on top of the first
C10_Witness ==
    /\ ckptWrites = 2
    /\ Committed
    /\ \E p, q \in checkpoint_file : p # q /\ st[p] = "none" /\ result[q] = "true"

\* the papers in flight: process_single_paper started, its result not yet collected
InFlight == {p \in Papers : st[p] \in {"fetching", "segmenting", "indexing"}}

\* C11: the papers in flight are papers of the current batch and number at
\* most batch_size; while a batch is in flight, no task of another batch
\* exists and one checkpoint has been written for every batch before it.
C11_BatchesSequential ==
    /\ InFlight # {} => pc = "batch"
    /\ Cardinality(InFlight) <= batch_size
    /\ pc = "batch" =>
           /\ {p \in Papers : st[p] # "none"} = Batch(papers, i)
           /\ \A j \in 1..Len(papers) :
                  (j < i \/ j >= i + batch_size) => papers[j] \notin InFlight
           /\ ckptWrites * batch_size = i - 1

\* a paper of the second batch is in flight, on top of the first batch's checkpoint
C11_Witness ==
    /\ pc = "batch"
    /\ i > 1
    /\ ckptWrites = 1
    /\ InFlight # {}
    /\ checkpoint_file # {}

\* C12: with --force-reprocess, a run that returns has driven again every
\* paper given to it that was in processed_ids (the loaded checkpoint) or in
\* the skipped set when it started.
C12_ForceReprocesses ==
    (force_reprocess /\ Returned) =>
        \A p \in listed \cap (loaded_ids \cup skipAtRun) : p \in attempted

\* C13: a first run over all the ids in which exactly one paper q fails and
\* every other paper succeeds at once ends with all ids but q in
\* processed_ids and with exactly one error-log record for q.
C13_OneFailureScenario ==
    \A q \in Papers :
        (/\ pc = "idle" /\ ret = "finished" /\ nRuns = 1
         /\ listed = Papers
         /\ index = Papers \ {q}
         /\ error_log[q] # <<>>
         /\ \A p \in Papers \ {q} : error_log[p] = <<>> /\ skip_log[p] = <<>>)
        => /\ processed_ids = Papers \ {q}
           /\ Len(error_log[q]) = 1

\* C14: a call of ingest_papers that ended because fetch_papers raised has
\* started no task and has left the checkpoint file as it found it.
C14_ListFailureKeepsCheckpoint ==
    ret = "list_failed" =>
        /\ pc = "idle"
        /\ checkpoint_file = loaded_ids
        /\ ckptWrites = 0
        /\ attempted = {}
        /\ \A p \in Papers : st[p] = "none" /\ ~Invoked(p)

\* the listing failed in a run that followed a run with a committed batch
C14_Witness ==
    /\ ret = "list_failed"
    /\ nRuns >= 1
    /\ checkpoint_file # {}

\* C15: a step taken while a batch is in flight changes neither the metadata
\* cache (in memory or on file) nor the checkpoint file; the metadata cache
\* changes only when the paper list arrives (or is loaded by a new process)
\* and the checkpoint only when the batch's results are collected.
C15_SharedStateAtSyncPoints ==
    [][/\ (pc = "batch" /\ pc' = "batch") =>
              /\ metadata_cache' = metadata_cache
              /\ metadata_file' = metadata_file
              /\ checkpoint_file' = checkpoint_file
       /\ metadata_file' # metadata_file => pc = "listing"
       /\ metadata_cache' # metadata_cache => pc \in {"off", "idle", "listing"}
       /\ checkpoint_file' # checkpoint_file =>
              pc = "batch" /\ \A p \in Batch(papers, i) : st[p] = "done"
      ]_vars

\* extract_sections has returned its list
Extracted == doc_pc \in {"extracted", "annotated"} /\ ~raised

\* the name without its last dotted component
Front(name) == SubSeq(name, 1, Len(name) - 1)

\* C16: every section returned has is_subsection true exactly when its name
\* contains a '.', and then its parent_name is the name with the last dotted
\* component removed.
C16_SubsectionIffDotted ==
    Extracted =>
        \A k \in 1..Len(sections) :
            /\ sections[k].is_subsection <=> Len(sections[k].name) > 1
            /\ sections[k].is_subsection =>
                   sections[k].parent_name = Front(sections[k].name)

\* the depths of the heading lines of depth 1 to 3 of a text, in document order
RECURSIVE HeadingDepths(_)
HeadingDepths(lines) ==
    IF lines = <<>> THEN <<>>
    ELSE LET rest == HeadingDepths(SubSeq(lines, 1, Len(lines) - 1))
             h == Last(lines).hashes
         IN  IF h \in {1, 2, 3} THEN Append(rest, h) ELSE rest

\* the counter algorithm of the claim, started from c: depth 1 increments c1,
\* resets c2 and c3 and emits c1; depth 2 increments c2, resets c3 and emits
\* c1.c2; depth 3 increments c3 and emits c1.c2.c3
RECURSIVE CounterNames(_, _, _)
CounterNames(c, depths, k) ==
    IF k > Len(depths) THEN <<>>
    ELSE LET d == depths[k]
             c2 == IF d = 1 THEN <<c[1] + 1, 0, 0>>
                   ELSE IF d = 2 THEN <<c[1], c[2] + 1, 0>>
                   ELSE <<c[1], c[2], c[3] + 1>>
         IN  <<SubSeq(c2, 1, d)>> \o CounterNames(c2, depths, k + 1)

\* C17: on a newly constructed extractor, the names of the sections returned
\* are, in order, the names the counter algorithm gives to the heading lines of
\* depth 1 to 3 of the text: one section per heading line.
C17_NamesFollowCounters ==
    Extracted =>
        [k \in 1..Len(sections) |-> sections[k].name]
            = CounterNames(<<0, 0, 0>>, HeadingDepths(md_lines), 1)

\* no line of the text starts with '#'
NoHeadingLines == \A k \in 1..Len(md_lines) : md_lines[k].hashes = 0

\* C18: for a text without heading lines extract_sections returns the empty
\* list, and a chunk annotated against it has no section_id.
C18_NoHeadingsNoSections ==
    (NoHeadingLines /\ doc_pc \in {"extracted", "annotated"}) =>
        /\ ~raised
        /\ sections = <<>>
        /\ doc_pc = "annotated" => chunk.section_id = None

\* a chunk of page 2 was annotated for a text of page markers and body lines
C18_Witness ==
    /\ NoHeadingLines
    /\ doc_pc = "annotated"
    /\ chunk.page_num = 2
    /\ Len(md_lines) = 2
    /\ \E k \in 1..Len(md_lines) : md_lines[k].frag.kind = "int"

\* a line that starts with '#' and is malformed: deeper than 3, without a
\* title, or with a 'Page ' that no number follows
Malformed(line) ==
    /\ line.hashes > 0
    /\ \/ line.hashes > 3
       \/ line.title = ""
       \/ line.frag.kind = "bad"

\* C19: extract_sections does not raise, whatever the lines; a text whose
\* lines starting with '#' are all deeper than 3 gives the sections of its body
\* text, none, and no line gives more than one section.
C19_NeverRaises ==
    /\ ~raised
    /\ doc_pc \in {"extracted", "annotated"} =>
           /\ Len(sections) <= Len(md_lines)
           /\ (\A k \in 1..Len(md_lines) : md_lines[k].hashes \in {0, 4}) =>
                  sections = <<>>

\* the text had a heading deeper than 3, one without a title and one with a
\* 'Page ' fragment that is no number, and extract_sections returned
C19_Witness ==
    /\ doc_pc = "extracted"
    /\ \E j, k, l \in 1..Len(md_lines) :
           /\ md_lines[j].hashes = 4
           /\ md_lines[k].hashes \in {1, 2, 3} /\ md_lines[k].title = ""
           /\ md_lines[l].hashes \in {1, 2, 3} /\ md_lines[l].frag.kind = "bad"

\* C20: the sections returned all have start_page > 0 and are in
\* non-decreasing start_page order.
C20_PagesPositiveAndOrdered ==
    Extracted =>
        /\ \A k \in 1..Len(sections) : sections[k].start_page > 0
        /\ \A j, k \in 1..Len(sections) :
               j < k => sections[j].start_page <= sections[k].start_page

\* the section the claim names for page p: among the sections that start on
\* page p or before, the one with the greatest start_page, and of those
\* the one extracted last; None when no section starts on p or before
ContainingPerClaim(p, secs) ==
    LET cand == {k \in 1..Len(secs) : secs[k].start_page <= p}
    IN  IF cand = {} THEN None
        ELSE LET k == CHOOSE c \in cand : \A j \in cand :
                          \/ secs[j].start_page < secs[c].start_page
                          \/ secs[j].start_page = secs[c].start_page /\ j <= c
             IN  get_id(secs[k])

\* C21: for every chunk page p and every section list,
\* _find_containing_section returns the last section, in start_page order,
\* whose start_page <= p, the later-extracted one among those that share
\* that start_page, and none when p is smaller than every start_page.
C21_LastSectionStartingBefore ==
    doc_pc = "annotated" =>
        chunk.section_id = ContainingPerClaim(chunk.page_num, sections)

\* ---------------------------------------------------------- process_pdf
\* process_pdf returned
Processed == doc_pc = "processed" /\ ~raised

\* the paragraphs the chunks were made of: process_pdf chunks the cleaned text
ChunkedText == IF doc_pc = "processed" THEN _clean_text(pdf.text) ELSE pdf.text

\* the positions, among the lines of the text, of the lines of paragraph n
LinesAt(text, n) ==
    LET before == Len(LinesOf(SubSeq(text, 1, n - 1)))
    IN  (before + 1)..(before + Len(text[n]))

\* the number of headings in the first pos lines: the heading the line at pos
\* lies under is that of the section extracted as the n-th (0: under none)
HeadingsUpTo(lines, pos) ==
    Cardinality({j \in 1..pos : lines[j].hashes \in {1, 2, 3}})

\* the headings the lines of chunk c lie under
Under(c) ==
    {HeadingsUpTo(LinesOf(ChunkedText), pos) :
        pos \in UNION {LinesAt(ChunkedText, c.paras[k]) : k \in 1..Len(c.paras)}}

\* C22: after process_pdf, a chunk whose text lies under the heading of
\* section S carries section_id = S.get_id(), also when the document has
\* several sections and no page marker.
C22_ChunkCarriesItsSection ==
    Processed =>
        \A k \in 1..Len(chunks) : \A n \in 1..Len(sections) :
            Under(chunks[k]) = {n} => chunks[k].section_id = get_id(sections[n])

\* -------------------------------------------------------- _create_chunks
\* _create_chunks returned, called on its own or by process_pdf
Chunked == doc_pc = "chunked" \/ Processed

\* the paragraphs of the k-th chunk
ParagraphsOf(k) == ChunkParagraphs(ChunkedText, chunks[k].paras)

\* C23: for every text and every (chunk_size, chunk_overlap), every chunk of
\* _create_chunks has len(text) <= chunk_size + chunk_overlap, except a chunk
\* that is a single paragraph longer than chunk_size.
C23_ChunkLengthBounded ==
    Chunked =>
        \A k \in 1..Len(chunks) :
            \/ JoinedLen(ParagraphsOf(k)) <= processor.chunk_size + processor.chunk_overlap
            \/ /\ Len(chunks[k].paras) = 1
               /\ ParaLen(ParagraphsOf(k)[1]) > processor.chunk_size

\* the chunks that hold the n-th paragraph of the text
ChunksWith(n) == {k \in 1..Len(chunks) : n \in Range(chunks[k].paras)}

\* C24: a paragraph longer than chunk_size is emitted as its own chunk: it
\* is in exactly one chunk, that chunk holds no other paragraph, and a text
\* that is just that paragraph gives exactly one chunk.
C24_OversizedParagraphAlone ==
    Chunked =>
        \A n \in 1..Len(ChunkedText) :
            ParaLen(ChunkedText[n]) > processor.chunk_size =>
                /\ Cardinality(ChunksWith(n)) = 1
                /\ \A k \in ChunksWith(n) : chunks[k].paras = <<n>>
                /\ Len(ChunkedText) = 1 => Len(chunks) = 1

\* the chunks in emission order, each after the first without its leading
\* paragraph when chunk_overlap > 0, one after the other (a chunk is kept as
\* the paragraphs '\n\n' joins: no paragraph holds '\n\n')
RECURSIVE Rebuilt(_)
Rebuilt(k) ==
    IF k = 0 THEN <<>>
    ELSE Rebuilt(k - 1) \o (IF k > 1 /\ processor.chunk_overlap > 0
                            THEN Tail(chunks[k].paras) ELSE chunks[k].paras)

\* the non-empty stripped paragraphs of the text, in order, by position
RECURSIVE NonEmpty(_, _)
NonEmpty(text, n) ==
    IF n = 0 THEN <<>>
    ELSE NonEmpty(text, n - 1) \o (IF ParaLen(text[n]) > 0 THEN <<n>> ELSE <<>>)

\* C25: the chunks of _create_chunks, in emission order and without the
\* leading paragraph each chunk after the first repeats from the chunk before
\* it when chunk_overlap > 0, give exactly the non-empty stripped paragraphs
\* of the text: none lost, none reordered, none repeated otherwise.
C25_ChunksRebuildText ==
    Chunked =>
        /\ Rebuilt(Len(chunks)) = NonEmpty(ChunkedText, Len(ChunkedText))
        /\ processor.chunk_overlap > 0 =>
               \A k \in 2..Len(chunks) :
                   Head(chunks[k].paras) = Last(chunks[k - 1].paras)

\* _create_chunks returned several chunks with an overlap, for a text with a
\* blank paragraph, and a chunk of it holds its overlap and a new paragraph
C25_Witness ==
    /\ doc_pc = "chunked"
    /\ processor.chunk_overlap > 0
    /\ Len(chunks) >= 2
    /\ \E n \in 1..Len(pdf.text) : pdf.text[n] = <<>>
    /\ \E k \in 2..Len(chunks) : Len(chunks[k].paras) = 2

\* the position of the k-th chunk among the chunks of its section, from 0
IndexInSection(k) ==
    Cardinality({j \in 1..(k - 1) : chunks[j].section_id = chunks[k].section_id})

\* C26: every chunk produced for a document carries a chunk_index, equal to
\* its position in emission order within its section (0, 1, 2, ...); the
\* chunks process_pdf returns are the ones add_paper puts in the index.
C26_ChunkIndexByEmission ==
    Processed =>
        \A k \in 1..Len(chunks) :
            /\ chunks[k].chunk_index # None
            /\ chunks[k].chunk_index = IndexInSection(k)

\* C27: processing the text "# 1 Intro\nfoo\n## 1.1 Sub\nbar" with
\* chunk_size=100 yields exactly the sections {name '1', title 'Intro'} and
\* {name '1.1', title 'Sub', parent_name '1', is_subsection true}, and
\* exactly two chunks, the first tagged with the section_id of section '1'
\* and the second with that of section '1.1'.
C27_IntroSubScenario ==
    (Processed /\ pdf.text = <<IntroSub>> /\ processor.chunk_size = 100) =>
        /\ Len(sections) = 2
        /\ sections[1].name = <<1>> /\ sections[1].title = "Intro"
        /\ sections[2].name = <<1, 1>> /\ sections[2].title = "Sub"
        /\ sections[2].parent_name = <<1>> /\ sections[2].is_subsection
        /\ Len(chunks) = 2
        /\ chunks[1].section_id = get_id(sections[1])
        /\ chunks[2].section_id = get_id(sections[2])

\* -------------------------------------------------------- _extract_images
\* the images doc.get_page_images lists on some page of the PDF
ListedImages == UNION {Range(pdf.pages[n]) : n \in 1..Len(pdf.pages)}

\* the records emitted for xref x
RecordsOf(x) == {k \in 1..Len(images) : images[k].xref = x}

C29_DamagedFieldIsAbsent ==
    doc_pc = "retrieved" =>
        /\ ~raised
        /\ Len(contexts) = Len(results)
        /\ \A k \in 1..Len(contexts) :
               /\ contexts[k].chunk =
                      (IF results[k].chunk_metadata = "ok" THEN "chunk" ELSE None)
               /\ contexts[k].paper_metadata =
                      (IF results[k].paper_metadata = "ok" THEN "paper" ELSE None)
               /\ contexts[k].section =
                      (IF results[k].section_data = "ok" THEN "section" ELSE None)

\* ----------------------------------------------------------- _build_prompt
\* the numeric path a comes before the numeric path b
RECURSIVE PathLess(_, _)
PathLess(a, b) ==
    IF b = <<>> THEN FALSE
    ELSE IF a = <<>> THEN TRUE
    ELSE IF Head(a) # Head(b) THEN Head(a) < Head(b)
    ELSE PathLess(Tail(a), Tail(b))

\* by the claim, context a is listed before context b
ListedBefore(a, b) ==
    \/ a.section # None /\ b.section = None
    \/ a.section # None /\ b.section # None /\ PathLess(a.section, b.section)
    \/ /\ a.section = b.section
       /\ a.chunk_index # None /\ b.chunk_index # None
       /\ a.chunk_index[1] < b.chunk_index[1]

\* C30: _build_prompt lists each paper's contexts by section numeric path
\* ascending ('2' before '10', '1.2' before '1.10'), then by chunk_index
\* ascending, the contexts without a section after all the others.
C30_PromptInSectionOrder ==
    doc_pc = "built" =>
        \A j, k \in 1..Len(prompt) :
            j < k => ~ListedBefore(prompt[k], prompt[j])


\* C31: the sections extract_sections returns for a text are those a newly
\* constructed extractor returns for it, also when the extractor has been
\* used for the texts of earlier papers: the first depth-1 section is '1'.
C31_ExtractorIndependentOfHistory ==
    Extracted =>
        sections = ExtractSections(NewCounters, NewLast, md_lines).sections


\* C32: process_pdf keeps the depth of the headings of the extracted markdown:
\* its sections are, in order, those of the heading lines of depth 1 to 3, a
\* heading of depth d giving a name of d components (at depth 2 with the
\* first component as parent_name), and a deeper heading gives no section.
C32_HeadingDepthPreserved ==
    Processed =>
        LET depths == HeadingDepths(LinesOf(pdf.text))
        IN  /\ Len(sections) = Len(depths)
            /\ \A k \in 1..Len(sections) :
                   k <= Len(depths) =>
                       /\ Len(sections[k].name) = depths[k]
                       /\ depths[k] = 2 =>
                              sections[k].parent_name = Front(sections[k].name)


\* the task of paper p, which had no skip-log record when its batch started,
\* has ended in a failure
FailedNow(p) ==
    /\ p \in attempted /\ p \notin skipAtBatch
    /\ st[p] = "done" /\ result[p] \in {"false", "exc"}

\* the reason the claim gives to the stage that failed ("" where it names none)
ReasonOfStage(p) ==
    IF fetched[p] = "empty" THEN "fetch_failed"
    ELSE IF segmented[p] \in {"no_chunks", "no_sections"} THEN "processing_failed"
    ELSE IF segmented[p] = "raise" THEN "process_error"
    ELSE IF inserted[p] = "raise" THEN "rag_error"
    ELSE ""

\* C33: a paper that fails in a run gets exactly one skip-log record in it,
\* whose reason names the stage that failed: fetch_failed, processing_failed,
\* process_error or rag_error, and rag_error only for a failure of the index
\* insertion.
C33_OneSkipRecordNamingStage ==
    \A p \in Papers :
        FailedNow(p) =>
            /\ Len(skip_log[p]) = 1
            /\ ReasonOfStage(p) # "" => skip_log[p][1] = ReasonOfStage(p)
            /\ skip_log[p][1] = "rag_error" => inserted[p] = "raise"


\* the text with every heading line deeper than 3 turned into a body line
\* (the same line without its leading '#')
DeepAsBody(lines) ==
    [k \in 1..Len(lines) |->
        IF lines[k].hashes > 3 THEN [lines[k] EXCEPT !.hashes = 0] ELSE lines[k]]

\* C34: a heading line deeper than 3 given to extract_sections emits no
\* section and changes no counter and no last-section pointer: the call
\* returns the sections, and leaves the extractor in the state, it would with
\* those lines as plain body text.
C34_DeepHeadingIsBodyText ==
    doc_pc \in {"extracted", "annotated"} =>
        LET e == ExtractSections(NewCounters, NewLast, DeepAsBody(md_lines))
        IN  /\ ~raised
            /\ sections = e.sections
            /\ current_sections = e.current_sections
            /\ last_section = e.last_section

\* extract_sections returned for a text with a heading deeper than 3 between
\* two headings that gave a section each
C34_Witness ==
    /\ doc_pc = "extracted"
    /\ Len(md_lines) = 3
    /\ md_lines[1].hashes = 1 /\ md_lines[2].hashes = 4 /\ md_lines[3].hashes = 2
    /\ md_lines[2].title = "T"
    /\ Len(sections) = 2
    /\ sections[2].name = <<1, 1>>


\* C35: the section list returned for a document has no two sections of the
\* same name, is in the order of the numeric paths of the names, and has no
\* section with start_page <= 0.
C35_SectionsValidated ==
    Extracted =>
        /\ \A j, k \in 1..Len(sections) :
               j < k => PathLess(sections[j].name, sections[k].name)
        /\ \A k \in 1..Len(sections) : sections[k].start_page > 0


\* C36: the images of a paper are stored under distinct keys, and get_image
\* called for an xref whose image has been stored returns the bytes of that
\* image.
C36_ImagesStoredByXref ==
    /\ \A j, k \in 1..Len(paths) : j # k => paths[j] # paths[k]
    /\ (got # None /\ got.stored) => got.body = <<ImageBytes(got.xref)>>


\* C37: the checkpoint file only grows: an id in it stays in it through every
\* later batch of the run and every later run of ingest_papers.
C37_CheckpointOnlyGrows ==
    [][checkpoint_file \subseteq checkpoint_file']_vars

\* a second run has written, after one of its batches, a checkpoint that
\* holds the ids it loaded and a new one
C37_Witness ==
    /\ nRuns = 2
    /\ ckptWrites >= 1
    /\ loaded_ids # {}
    /\ loaded_ids \subseteq checkpoint_file
    /\ checkpoint_file # loaded_ids


\* paper p has a final outcome: indexed, skipped with a reason, or errored
FinalOutcome(p) ==
    \/ p \in index
    \/ skip_log[p] # <<>>
    \/ error_log[p] # <<>>

\* C38: when every collaborator call returns or raises, every call of
\* ingest_papers terminates, and when it has returned no paper is pending or
\* in flight and every paper of its list that was not in the checkpoint has a
\* final outcome.
C38_RunTerminatesWithOutcomes ==
    /\ (pc \in {"listing", "ready", "batch"}) ~> (pc = "idle")
    /\ [](Returned =>
             /\ InFlight = {}
             /\ i > Len(papers)
             /\ \A p \in Range(papers) : FinalOutcome(p))

\* a run of two batches has returned: one of its papers is indexed and
\* another failed after its fetch was retried
C38_Witness ==
    /\ Returned /\ ret = "finished"
    /\ Len(papers) > batch_size
    /\ \E p, q \in Range(papers) :
           /\ p \in index
           /\ q \notin index /\ Len(error_log[q]) >= 2


\* C39: every value of a metadata add_paper hands to the index is a str, an
\* int or a bool, and retrieve rebuilds from it the chunk metadata and the
\* paper metadata that were inserted and the section of the chunk, or no
\* section for a chunk without one.
C39_MetadataRoundTrip ==
    /\ doc_pc \in {"inserted", "retrieved"} =>
           \A k \in 1..Len(results) : \A f \in DOMAIN results[k] :
               results[k][f].py \in {"str", "int", "bool"}
    /\ doc_pc = "retrieved" =>
           /\ ~raised
           /\ Len(contexts) = Len(chunks)
           /\ \A k \in 1..Len(contexts) :
                  /\ contexts[k].chunk = MetadataOf(chunks[k])
                  /\ contexts[k].paper_metadata = paper_metadata
                  /\ contexts[k].section = Lookup(sections, chunks[k].section_id)

\* retrieve has rebuilt the contexts of a paper with an image: one of a chunk
\* of a section of the paper, one of a chunk without section_id, and one of a
\* chunk whose section_id names no section of the paper
C39_Witness ==
    /\ doc_pc = "retrieved"
    /\ images # <<>>
    /\ \E j, k, l \in 1..Len(contexts) :
           /\ contexts[j].section # None /\ contexts[j].section[1].title = ""
           /\ contexts[k].section = None /\ chunks[k].section_id = None
           /\ contexts[l].section = None /\ chunks[l].section_id # None

====
